---- MODULE Spec2Model ----
(***************************************************************************)
(* The one-billion-row aggregation engines of jackyef/nodejs.              *)
(*                                                                         *)
(*   scheduler-worker.js  coordinator + worker threads updating a shared,  *)
(*                        fixed-capacity table (shared-map.js) with        *)
(*                        Atomics.load / Atomics.store                     *)
(*   worker-read-file.js  earlier variants, among them the single-thread   *)
(*                        streaming parser (lines 544-682)                 *)
(*   baseline-improving   file-splitting design with per-worker maps       *)
(*                                                                         *)
(* Bytes are their ASCII codes, buffers are sequences of bytes, and buffer *)
(* positions are 0-based as in the source.                                 *)
(***************************************************************************)
EXTENDS Integers, Sequences, FiniteSets, TLC

VARIABLES
    \* the input file and the read stream (fs.createReadStream)
    input,              \* the bytes of the file
    pos,                \* bytes already delivered by 'data' events
    \* coordinator (main thread of scheduler-worker.js)
    buffer,             \* residual bytes not yet part of a dispatched span
    workerIndex,        \* next worker of the round-robin
    sentChunk,          \* spans posted to workers
    receivedChunk,      \* completion messages handled
    allSent,            \* set by the stream's 'end' handler
    printCount,         \* invocations of printCompiledResults
    dispatched,         \* history: <<[worker, span]>> in dispatch order
    cutInRecord,        \* history: some raw buffer ended inside a record
    \* worker threads of scheduler-worker.js
    wQueue,             \* per worker: chunks posted and not yet received
    wChunk,             \* per worker: the chunk being processed
    wOffset,            \* per worker: offset of the record loop
    wPc,                \* per worker: position inside the record's update
    wLocal,             \* per worker: the value last read from the table
    wNameIdx,           \* per worker: next label byte of the forEach
    wFirst,             \* history, per worker: records applied on the first-writer path
    wStarted,           \* history, per worker: <<label, temp>> of every update begun, in order
    wPosted,            \* history, per worker: completion messages posted
    inbox,              \* completion messages posted and not yet handled
    lateWrites,         \* history: table stores made after printCompiledResults began
    \* shared memory (shared-map.js)
    typedArray,         \* Int32Array, index -> value, absent = 0
    stationNamesTypedArray, \* Uint8Array, index -> byte, absent = 0
    \* single-thread variant (worker-read-file.js 544-682)
    stPos,              \* bytes delivered to its 'data' handler
    stBuffer,           \* its residual buffer
    stMap,              \* its Map: label -> [min, max, sum, count]
    stEnded,            \* its 'end' handler ran
    stCutInRecord,      \* history: some raw buffer it received ended inside a record
    \* number parser driver
    pNeg, pInt, pFrac,  \* the value span under test: sign, integer digits, fractional digit
    pOut,               \* result of fastParseFloat
    pOutBase,           \* result of specificNumberConversion
    pPc,                \* which of the two parsers has run
    \* failures of the shared-table engine
    wErrors,            \* 'error' events of workers not yet handled by the main thread
    processExit,        \* <<>> while the process runs, <<code>> once process.exit(code) ran
    \* file-splitting design (baseline-improving/index.js, worker-read-file.js 1-200)
    cpus,               \* os.cpus().length, its THREADS_COUNT
    fsWorker,           \* per worker: bytes read of its range, parser state, local Map, 'end' ran
    fsInbox,            \* workers whose result message is not yet handled by the main thread
    fsMergedFrom,       \* history: workers whose result map has been merged
    aggregations,       \* the main thread's Map: label -> [min, max, sum, count]
    finishedWorker,     \* result messages handled
    fsPrintCount        \* calls of printCompiledResults(aggregations)

coordVars == <<buffer, workerIndex, sentChunk, receivedChunk, allSent, printCount, dispatched, cutInRecord>>
workerVars == <<wQueue, wChunk, wOffset, wPc, wLocal, wNameIdx, wFirst, wStarted, wPosted, inbox, lateWrites>>
tableVars == <<typedArray, stationNamesTypedArray>>
stVars == <<stPos, stBuffer, stMap, stEnded, stCutInRecord>>
parseVars == <<pNeg, pInt, pFrac, pOut, pOutBase, pPc>>
errVars == <<wErrors, processExit>>
fsVars == <<cpus, fsWorker, fsInbox, fsMergedFrom, aggregations, finishedWorker, fsPrintCount>>
vars == <<input, pos, coordVars, workerVars, tableVars, stVars, parseVars, errVars, fsVars>>

----------------------------------------------------------------------------
(* Bounds of the model *)

\* records of a file given to the shared-table engine
MaxRecords == 3
\* bytes of a file given to the chunk splitters
MaxInput == 5
\* digits of the integer part of a value span
MaxIntDigits == 2
\* size of the worker pool: os.cpus().length (scheduler-worker.js 24) on a
\* machine of this many cores
THREADS_COUNT == 2
\* most cores of the machines the file-splitting design runs on
MaxCpus == 5
\* most bytes of one 'data' event: the stream's highWaterMark
\* (scheduler-worker.js 70, 128 KiB there), scaled down to about two records
HighWaterMark == 13

----------------------------------------------------------------------------
(* Program constants *)

WORKER_DONE_MESSAGE == 1
semicolon == 59
newline == 10
minus == 45
dot == 46
zero == 48

BLOCK_SIZE == 4
BLOCK_COUNT == 10007
STATION_NAME_BYTE_SIZE == 100
COUNT_OFFSET == 0
MIN_OFFSET == 1
MAX_OFFSET == 2
SUM_OFFSET == 3

\* baseline-improving/index.js
chunkSize == 107
LOOKING_FOR_SEMICOLON == 0
LOOKING_FOR_NEWLINE == 1

Workers == 0 .. (THREADS_COUNT - 1)

\* process.exit has not run: handlers and worker threads still execute
Running == processExit = <<>>

----------------------------------------------------------------------------
(* Buffer primitives (node:buffer), 0-based *)

SetMin(S) == CHOOSE x \in S : \A y \in S : x <= y
SetMax(S) == CHOOSE x \in S : \A y \in S : x >= y
MathMin(a, b) == IF a <= b THEN a ELSE b
MathMax(a, b) == IF a >= b THEN a ELSE b

\* buf.indexOf(byte, from), from >= 0
IndexOf(buf, byte, from) ==
    LET S == {i \in from .. (Len(buf) - 1) : buf[i + 1] = byte}
    IN  IF S = {} THEN -1 ELSE SetMin(S)

\* buf.lastIndexOf(byte)
LastIndexOf(buf, byte) ==
    LET S == {i \in 0 .. (Len(buf) - 1) : buf[i + 1] = byte}
    IN  IF S = {} THEN -1 ELSE SetMax(S)

\* a slice bound: negative counts from the end, then clamped to 0 .. len
SliceBound(i, len) == IF i < 0 THEN MathMax(len + i, 0) ELSE MathMin(i, len)

\* buf.slice(start, end)
Slice(buf, start, end) ==
    LET a == SliceBound(start, Len(buf))
        b == SliceBound(end, Len(buf))
    IN  IF b <= a THEN <<>> ELSE SubSeq(buf, a + 1, b)

RECURSIVE Concat(_)
Concat(ss) == IF ss = <<>> THEN <<>> ELSE Head(ss) \o Concat(Tail(ss))

----------------------------------------------------------------------------
(* Number parsers *)

RECURSIVE Pow10(_)
Pow10(n) == IF n = 0 THEN 1 ELSE 10 * Pow10(n - 1)

\* mutant: pow += 1 moved out of the if, so the dot takes a decimal place
RECURSIVE FastParseLoopDotCounted(_, _, _, _)
FastParseLoopDotCounted(inp, i, pow, sum) ==
    IF i < 0 THEN sum
    ELSE IF inp[i + 1] # dot
         THEN FastParseLoopDotCounted(inp, i - 1, pow + 1, sum + (inp[i + 1] - zero) * Pow10(pow))
         ELSE FastParseLoopDotCounted(inp, i - 1, pow + 1, sum)

\* the for loop of fastParseFloat, from index i down to 0
RECURSIVE FastParseLoop(_, _, _, _)
FastParseLoop(inp, i, pow, sum) ==
    IF i < 0 THEN sum
    ELSE IF inp[i + 1] # dot
         THEN FastParseLoop(inp, i - 1, pow + 1, sum + (inp[i + 1] - zero) * Pow10(pow))
         ELSE FastParseLoop(inp, i - 1, pow, sum)

RECURSIVE fastParseFloat(_)
fastParseFloat(inp) ==
    IF Len(inp) > 0 /\ inp[1] = minus
    THEN 0 - fastParseFloat(Slice(inp, 1, Len(inp)))
    ELSE FastParseLoop(inp, Len(inp) - 1, 0, 0)

\* baseline-improving: the loop of specificNumberConversion, from lastIndex down to 0
RECURSIVE SpecificLoop(_, _, _, _)
SpecificLoop(buf, i, pow, value) ==
    IF i < 0 THEN value
    ELSE IF buf[i + 1] # dot
         THEN IF buf[i + 1] = minus
              THEN SpecificLoop(buf, i - 1, pow, value * (-1))
              ELSE SpecificLoop(buf, i - 1, pow + 1, value + (buf[i + 1] - zero) * Pow10(pow))
         ELSE SpecificLoop(buf, i - 1, pow, value)

specificNumberConversion(buf, lastIndex) == SpecificLoop(buf, lastIndex, 0, 0)

----------------------------------------------------------------------------
(* shared-map.js: hashing.  A 32-bit word is kept as <<high 16 bits, low 16   *)
(* bits>>; the product hash * 16777619 is a double, so above 2^53 it is        *)
(* rounded to the nearest representable value (ties to even) before >>> 0.    *)

Half == 256 * 256

RECURSIVE BitXor(_, _)
BitXor(a, b) ==
    IF a = 0 /\ b = 0 THEN 0
    ELSE (((a % 2) + (b % 2)) % 2) + 2 * BitXor(a \div 2, b \div 2)

\* hash ^= byte: the result is a signed 32-bit integer with this bit pattern
XorByte(h, byte) == <<h[1], ((h[2] \div 256) * 256) + BitXor(h[2] % 256, byte)>>

\* two's complement of a 32-bit pattern
Negate32(h) ==
    IF h[2] = 0 THEN <<(Half - h[1]) % Half, 0>> ELSE <<Half - 1 - h[1], Half - h[2]>>

\* The product |hash| * 16777619, with 16777619 = 256 * 2^16 + 403, in 16-bit
\* digits d0, d1, d2, d3; only d0, d1 and the size of d3 decide the low 32 bits
\* of the double.

\* the spacing of doubles at the product's magnitude: 2^53 is d3 = 32
DoubleUlp(d3) == IF d3 < 32 THEN 1 ELSE IF d3 < 64 THEN 2 ELSE IF d3 < 128 THEN 4 ELSE 8

\* d0 rounded to a multiple of ulp, ties to the even multiple; r = d0 % ulp
RoundDigit(d0, ulp, r) ==
    (d0 - r) + (IF 2 * r > ulp \/ (2 * r = ulp /\ ((d0 \div ulp) % 2) = 1) THEN ulp ELSE 0)

\* the low 32 bits, from the rounded low digit e0 and its carry into d1
LowWord(d1, e0) == <<(d1 + (e0 \div Half)) % Half, e0 % Half>>

MulDigits3(d0, d1, d3) == LowWord(d1, RoundDigit(d0, DoubleUlp(d3), d0 % DoubleUlp(d3)))

MulDigits2(m, d0, t1) == MulDigits3(d0, t1 % Half, ((m[1] * 256) + (t1 \div Half)) \div Half)

MulDigits1(m, t0) == MulDigits2(m, t0 % Half, (m[2] * 256) + (m[1] * 403) + (t0 \div Half))

\* the double |m| * 16777619, modulo 2^32
MulMagnitude(m) == MulDigits1(m, m[2] * 403)

\* (hash * 16777619) >>> 0 for the signed 32-bit integer with pattern h
MulPrime(h) ==
    IF h[1] >= 32768 THEN Negate32(MulMagnitude(Negate32(h))) ELSE MulMagnitude(h)

\* the for loop over buffer[lo .. hi] (1-based here), starting from hash h:
\* one iteration is hash ^= byte, then the product >>> 0; a longer stretch is
\* the loop over its first half followed by the loop over its second half
RECURSIVE FnvLoop(_, _, _, _)
FnvLoop(buf, lo, hi, h) ==
    IF lo > hi THEN h
    ELSE IF lo = hi THEN MulPrime(XorByte(h, buf[lo]))
    ELSE LET hash == FnvLoop(buf, lo, (lo + hi) \div 2, h)
         IN  \* >>> 0 has left an unsigned 32-bit word; reading it here runs the
             \* first half before the second, as the loop does
             IF hash[1] < Half THEN FnvLoop(buf, ((lo + hi) \div 2) + 1, hi, hash) ELSE hash

\* 2166136261 = 0x811C9DC5
fnv1aHash(buf) == FnvLoop(buf, 1, Len(buf), <<33052, 40389>>)

\* hash % BLOCK_COUNT, then scaled by the entry size
HashModBlockCount(h) == (((h[1] % BLOCK_COUNT) * (Half % BLOCK_COUNT)) + h[2]) % BLOCK_COUNT

\* mutant: slots are numbered from 1
getIndexFromOne(key, entrySize) == (HashModBlockCount(fnv1aHash(key)) + 1) * entrySize

\* getIndex(key, entrySize, ta)
getIndex(key, entrySize) == HashModBlockCount(fnv1aHash(key)) * entrySize

----------------------------------------------------------------------------
(* shared-map.js: the two typed arrays over shared memory *)

TypedArrayLength == BLOCK_COUNT * BLOCK_SIZE
StationNamesLength == STATION_NAME_BYTE_SIZE * BLOCK_COUNT

\* Atomics.load(ta, i); the arrays are zero-initialized
AtomicsLoad(ta, i) == IF i \in DOMAIN ta THEN ta[i] ELSE 0

\* Atomics.store(ta, i, v)
AtomicsStore(ta, i, v) == [j \in (DOMAIN ta) \cup {i} |-> IF j = i THEN v ELSE ta[j]]

\* the largest element of an Int32Array
MaxInt32 == 2147483647

\* the largest value of the record format, "99.9"
HottestText == <<zero + 9, zero + 9, dot, zero + 9>>

\* mutant: the second operand is added twice
Int32SumAddendTwice(a, b) == a + b + b

\* mutant: the sum is replaced by the new value, not accumulated
Int32SumKeepsAddend(a, b) == a

\* what Atomics.store leaves in an Int32Array element when given a + b, for
\* int32 a and b: the exact sum modulo 2^32, as a signed 32-bit integer
Int32Sum(a, b) ==
    IF a > 0 /\ b > MaxInt32 - a THEN (a - MaxInt32 - 1) + (b - MaxInt32 - 1)
    ELSE IF a < 0 /\ b < ((-MaxInt32) - 1) - a THEN (a + MaxInt32 + 1) + (b + MaxInt32 + 1)
    ELSE a + b

\* get(ta, key, offset)
get(ta, key, offset) == AtomicsLoad(ta, getIndex(key, BLOCK_SIZE) + offset)

\* mutant: the field offset is not added to the slot's index
setOffsetDropped(ta, key, value, offset) ==
    LET i == getIndex(key, BLOCK_SIZE)
    IN  IF i < TypedArrayLength THEN AtomicsStore(ta, i, value) ELSE ta

\* set(ta, key, value, offset) with a number: one Atomics.store; an index outside
\* the array throws a RangeError that set catches, leaving the array as it was
set(ta, key, value, offset) ==
    LET i == getIndex(key, BLOCK_SIZE) + offset
    IN  IF i < TypedArrayLength THEN AtomicsStore(ta, i, value) ELSE ta

\* mutant: the label bytes are placed with the stride of the numeric fields
NameIndexNumericStride(key, i) == getIndex(key, BLOCK_SIZE) + i

\* mutant: the label starts one byte into its cell
NameIndexOneByteOn(key, i) == getIndex(key, STATION_NAME_BYTE_SIZE) + i + 1

\* the index set(...) stores byte i of the label at
NameIndex(key, i) == getIndex(key, STATION_NAME_BYTE_SIZE) + i

----------------------------------------------------------------------------
(* scheduler-worker.js, worker thread: the record at wOffset of a chunk *)

NewlineIndex(chunk, offset) == IndexOf(chunk, newline, offset)
SemicolonIndex(chunk, offset) == IndexOf(chunk, semicolon, offset)

\* mutant: every record is taken for the last one of its chunk
hasNextWorkNever(chunk, newlineIndex) == FALSE

\* mutant: the search for a later terminator starts at the head of the chunk
hasNextWorkFromStart(chunk, newlineIndex) == IndexOf(chunk, newline, 0) # -1

hasNextWork(chunk, newlineIndex) == IndexOf(chunk, newline, newlineIndex + 1) # -1

\* mutant: the label span takes in the separator
StationBufferWithSeparator(chunk, offset) == Slice(chunk, offset, SemicolonIndex(chunk, offset) + 1)

StationBuffer(chunk, offset) == Slice(chunk, offset, SemicolonIndex(chunk, offset))

TempBuffer(chunk, offset) ==
    Slice(chunk, SemicolonIndex(chunk, offset) + 1, NewlineIndex(chunk, offset))

Temp(chunk, offset) == fastParseFloat(TempBuffer(chunk, offset))

\* the while condition and the break: is there a record at offset?
HasRecord(chunk, offset) == offset < Len(chunk) /\ NewlineIndex(chunk, offset) # -1

\* the byte span of every record the loop visits in a chunk
RECURSIVE RecordSpans(_, _)
RecordSpans(chunk, offset) ==
    IF ~HasRecord(chunk, offset) THEN <<>>
    ELSE <<Slice(chunk, offset, NewlineIndex(chunk, offset))>>
         \o RecordSpans(chunk, NewlineIndex(chunk, offset) + 1)

\* every record the loop visits in a chunk, as <<label, temp>>
RECURSIVE ScanChunk(_, _)
ScanChunk(chunk, offset) ==
    IF ~HasRecord(chunk, offset) THEN <<>>
    ELSE <<<<StationBuffer(chunk, offset), Temp(chunk, offset)>>>>
         \o ScanChunk(chunk, NewlineIndex(chunk, offset) + 1)

----------------------------------------------------------------------------
(* scheduler-worker.js, main thread *)

\* what postMessage carries to a worker: a Buffer, or the number 1
BufferMessage(bytes) == [type |-> "object", bytes |-> bytes]
IsDoneMessage(message) == message.type = "number" /\ message.value = WORKER_DONE_MESSAGE

\* mutant: the residual of the previous read is forgotten
PrependResidualDropped(residual, raw) == raw

\* Buffer.concat([buffer, chunk]) when a residual exists
PrependResidual(residual, raw) == IF Len(residual) > 0 THEN residual \o raw ELSE raw

\* mutant: the span stops before the line terminator
PassedArrayWithoutNewline(chunk, lastNewlineIndex) == Slice(chunk, 0, lastNewlineIndex)

\* chunk.slice(0, lastNewlineIndex + 1)
PassedArray(chunk, lastNewlineIndex) == Slice(chunk, 0, lastNewlineIndex + 1)

\* mutant: the residual starts at the line terminator, not after it
RemainderFromNewline(chunk, lastNewlineIndex) == Slice(chunk, lastNewlineIndex, Len(chunk))

\* chunk.slice(lastNewlineIndex + 1)
Remainder(chunk, lastNewlineIndex) == Slice(chunk, lastNewlineIndex + 1, Len(chunk))

\* mutant: the round-robin index is not advanced
NextWorkerIndexNotAdvanced(index) == index % THREADS_COUNT

\* workerIndex = (workerIndex + 1) % THREADS_COUNT
NextWorkerIndex(index) == (index + 1) % THREADS_COUNT

\* stream.on('data'): the stream delivers the next n bytes of the file (a
\* Buffer: no encoding is set, so the string guard never returns)
StreamData(n) ==
    /\ Running
    /\ ~allSent
    /\ n >= 1
    /\ pos + n <= Len(input)
    /\ LET raw == SubSeq(input, pos + 1, pos + n)
           chunk == PrependResidual(buffer, raw)
           lastNewlineIndex == LastIndexOf(chunk, newline)
       IN  /\ IF lastNewlineIndex # -1
              THEN LET nextWorker == workerIndex
                       passedArray == PassedArray(chunk, lastNewlineIndex)
                   IN  /\ workerIndex' = NextWorkerIndex(workerIndex)
                       /\ wQueue' = [wQueue EXCEPT ![nextWorker] = Append(@, BufferMessage(passedArray))]
                       /\ dispatched' = Append(dispatched, [worker |-> nextWorker, span |-> passedArray])
                       /\ sentChunk' = sentChunk + 1
                       /\ buffer' = Remainder(chunk, lastNewlineIndex)
              ELSE /\ buffer' = chunk
                   /\ UNCHANGED <<workerIndex, wQueue, dispatched, sentChunk>>
           /\ cutInRecord' = (cutInRecord \/ raw[Len(raw)] # newline)
    /\ pos' = pos + n
    /\ UNCHANGED <<input, receivedChunk, allSent, printCount>>
    /\ UNCHANGED <<wChunk, wOffset, wPc, wLocal, wNameIdx, wFirst, wStarted, wPosted, inbox, lateWrites>>
    /\ UNCHANGED <<tableVars, stVars, parseVars>>
    /\ UNCHANGED <<errVars, fsVars>>

\* stream.on('data') on a machine of one core: os.cpus().length is 1, the
\* pool is workers[0] and (workerIndex + 1) % 1 leaves workerIndex at 0
SoloData(n) ==
    /\ Running
    /\ ~allSent
    /\ n >= 1
    /\ pos + n <= Len(input)
    /\ LET raw == SubSeq(input, pos + 1, pos + n)
           chunk == PrependResidual(buffer, raw)
           lastNewlineIndex == LastIndexOf(chunk, newline)
       IN  /\ IF lastNewlineIndex # -1
              THEN LET nextWorker == workerIndex
                       passedArray == PassedArray(chunk, lastNewlineIndex)
                   IN  /\ workerIndex' = (workerIndex + 1) % 1
                       /\ wQueue' = [wQueue EXCEPT ![nextWorker] = Append(@, BufferMessage(passedArray))]
                       /\ dispatched' = Append(dispatched, [worker |-> nextWorker, span |-> passedArray])
                       /\ sentChunk' = sentChunk + 1
                       /\ buffer' = Remainder(chunk, lastNewlineIndex)
              ELSE /\ buffer' = chunk
                   /\ UNCHANGED <<workerIndex, wQueue, dispatched, sentChunk>>
           /\ cutInRecord' = (cutInRecord \/ raw[Len(raw)] # newline)
    /\ pos' = pos + n
    /\ UNCHANGED <<input, receivedChunk, allSent, printCount>>
    /\ UNCHANGED <<wChunk, wOffset, wPc, wLocal, wNameIdx, wFirst, wStarted, wPosted, inbox, lateWrites>>
    /\ UNCHANGED <<tableVars, stVars, parseVars>>
    /\ UNCHANGED <<errVars, fsVars>>

\* mutant: 'end' hands what is left in buffer to the next worker
StreamEndFlushesResidual ==
    /\ Running
    /\ ~allSent
    /\ pos = Len(input)
    /\ allSent' = TRUE
    /\ IF buffer # <<>>
       THEN /\ wQueue' = [wQueue EXCEPT ![workerIndex] = Append(@, BufferMessage(buffer))]
            /\ dispatched' = Append(dispatched, [worker |-> workerIndex, span |-> buffer])
            /\ workerIndex' = NextWorkerIndex(workerIndex)
            /\ sentChunk' = sentChunk + 1
            /\ buffer' = <<>>
       ELSE UNCHANGED <<wQueue, dispatched, workerIndex, sentChunk, buffer>>
    /\ UNCHANGED <<input, pos, receivedChunk, printCount, cutInRecord>>
    /\ UNCHANGED <<wChunk, wOffset, wPc, wLocal, wNameIdx, wFirst, wStarted, wPosted, inbox, lateWrites>>
    /\ UNCHANGED <<tableVars, stVars, parseVars>>
    /\ UNCHANGED <<errVars, fsVars>>

\* stream.on('end'): emitted once every byte has been delivered
StreamEnd ==
    /\ Running
    /\ ~allSent
    /\ pos = Len(input)
    /\ allSent' = TRUE
    /\ UNCHANGED <<input, pos, buffer, workerIndex, sentChunk, receivedChunk, printCount, dispatched, cutInRecord>>
    /\ UNCHANGED <<workerVars, tableVars, stVars, parseVars>>
    /\ UNCHANGED <<errVars, fsVars>>

\* mutant: the report is made at every completion message once all is sent
OnWorkerMessageAllSentOnly ==
    /\ Running
    /\ inbox > 0
    /\ inbox' = inbox - 1
    /\ receivedChunk' = receivedChunk + 1
    /\ printCount' = IF allSent THEN printCount + 1 ELSE printCount
    /\ UNCHANGED <<input, pos, buffer, workerIndex, sentChunk, allSent, dispatched, cutInRecord>>
    /\ UNCHANGED <<wQueue, wChunk, wOffset, wPc, wLocal, wNameIdx, wFirst, wStarted, wPosted, lateWrites>>
    /\ UNCHANGED <<tableVars, stVars, parseVars>>
    /\ UNCHANGED <<errVars, fsVars>>

\* worker.addListener('message'): one completion message is handled; when the
\* condition holds, stopWorkers() and printCompiledResults() run
OnWorkerMessage ==
    /\ Running
    /\ inbox > 0
    /\ inbox' = inbox - 1
    /\ receivedChunk' = receivedChunk + 1
    /\ printCount' = IF allSent /\ receivedChunk + 1 = sentChunk
                     THEN printCount + 1 ELSE printCount
    /\ UNCHANGED <<input, pos, buffer, workerIndex, sentChunk, allSent, dispatched, cutInRecord>>
    /\ UNCHANGED <<wQueue, wChunk, wOffset, wPc, wLocal, wNameIdx, wFirst, wStarted, wPosted, lateWrites>>
    /\ UNCHANGED <<tableVars, stVars, parseVars>>
    /\ UNCHANGED <<errVars, fsVars>>

----------------------------------------------------------------------------
(* scheduler-worker.js, worker thread.  Every Atomics operation is a step of *)
(* its own; what a worker computes between two of them is local.             *)

\* a store made once printCompiledResults has begun reading the table
Late == lateWrites \/ printCount > 0

\* the record at wOffset[w] is finished: cb() ran if post, then the loop goes on
EndRecord(w, post) ==
    LET chunk == wChunk[w]
        newlineIndex == NewlineIndex(chunk, wOffset[w])
        next == newlineIndex + 1
        sends == post /\ ~hasNextWork(chunk, newlineIndex)
    IN  /\ inbox' = IF sends THEN inbox + 1 ELSE inbox
        /\ wPosted' = [wPosted EXCEPT ![w] = IF sends THEN @ + 1 ELSE @]
        /\ IF HasRecord(chunk, next)
           THEN /\ wOffset' = [wOffset EXCEPT ![w] = next]
                /\ wPc' = [wPc EXCEPT ![w] = "getCount"]
                /\ UNCHANGED wChunk
           ELSE /\ wOffset' = [wOffset EXCEPT ![w] = 0]
                /\ wPc' = [wPc EXCEPT ![w] = "idle"]
                /\ wChunk' = [wChunk EXCEPT ![w] = <<>>]

\* parentPort.on('message'): the next message of the worker's queue
WorkerReceive(w) ==
    /\ Running
    /\ wPc[w] = "idle"
    /\ wQueue[w] # <<>>
    /\ wQueue' = [wQueue EXCEPT ![w] = Tail(@)]
    /\ LET message == Head(wQueue[w])
           chunk == message.bytes
       IN  IF IsDoneMessage(message)
           THEN /\ inbox' = inbox + 1
                /\ wPosted' = [wPosted EXCEPT ![w] = @ + 1]
                /\ UNCHANGED <<wChunk, wOffset, wPc>>
           ELSE /\ IF HasRecord(chunk, 0)
                   THEN /\ wChunk' = [wChunk EXCEPT ![w] = chunk]
                        /\ wPc' = [wPc EXCEPT ![w] = "getCount"]
                   ELSE UNCHANGED <<wChunk, wPc>>
                /\ UNCHANGED <<wOffset, inbox, wPosted>>
    /\ UNCHANGED <<wLocal, wNameIdx, wFirst, wStarted, lateWrites>>
    /\ UNCHANGED <<input, pos, coordVars, tableVars, stVars, parseVars>>
    /\ UNCHANGED <<errVars, fsVars>>

\* const existingCount = SharedMap.get(typedArray, stationBuffer, 0), and the branch
WorkerGetCount(w) ==
    /\ Running
    /\ wPc[w] = "getCount"
    /\ LET key == StationBuffer(wChunk[w], wOffset[w])
           existingCount == get(typedArray, key, COUNT_OFFSET)
       IN  /\ wLocal' = [wLocal EXCEPT ![w] = existingCount]
           /\ wStarted' = [wStarted EXCEPT ![w] = Append(@, <<key, Temp(wChunk[w], wOffset[w])>>)]
           /\ IF existingCount = 0
              THEN /\ wPc' = [wPc EXCEPT ![w] = "fwCount"]
                   /\ wFirst' = [wFirst EXCEPT ![w] =
                                    Append(@, <<key, Temp(wChunk[w], wOffset[w])>>)]
              ELSE /\ wPc' = [wPc EXCEPT ![w] = "upCount"]
                   /\ UNCHANGED wFirst
    /\ UNCHANGED <<wQueue, wChunk, wOffset, wNameIdx, wPosted, inbox, lateWrites>>
    /\ UNCHANGED <<input, pos, coordVars, tableVars, stVars, parseVars>>
    /\ UNCHANGED <<errVars, fsVars>>

\* first-writer branch: the four numeric stores
WorkerFirstStore(w) ==
    /\ Running
    /\ wPc[w] \in {"fwCount", "fwMin", "fwMax", "fwSum"}
    /\ LET key == StationBuffer(wChunk[w], wOffset[w])
           temp == Temp(wChunk[w], wOffset[w])
       IN  /\ typedArray' =
                CASE wPc[w] = "fwCount" -> set(typedArray, key, 1, COUNT_OFFSET)
                  [] wPc[w] = "fwMin" -> set(typedArray, key, temp, MIN_OFFSET)
                  [] wPc[w] = "fwMax" -> set(typedArray, key, temp, MAX_OFFSET)
                  [] wPc[w] = "fwSum" -> set(typedArray, key, temp, SUM_OFFSET)
           /\ IF wPc[w] = "fwSum" /\ Len(key) = 0
              THEN \* forEach over no bytes, then cb()
                   /\ EndRecord(w, TRUE)
                   /\ UNCHANGED wNameIdx
              ELSE /\ wPc' = [wPc EXCEPT ![w] =
                                CASE wPc[w] = "fwCount" -> "fwMin"
                                  [] wPc[w] = "fwMin" -> "fwMax"
                                  [] wPc[w] = "fwMax" -> "fwSum"
                                  [] wPc[w] = "fwSum" -> "fwName"]
                   /\ wNameIdx' = [wNameIdx EXCEPT ![w] = 0]
                   /\ UNCHANGED <<wChunk, wOffset, wPosted, inbox>>
    /\ lateWrites' = Late
    /\ UNCHANGED <<wQueue, wLocal, wFirst, wStarted, stationNamesTypedArray>>
    /\ UNCHANGED <<input, pos, coordVars, stVars, parseVars>>
    /\ UNCHANGED <<errVars, fsVars>>

\* first-writer branch: one byte of value.forEach(...) in set; a store outside
\* the array throws, set catches it and cb() is not called
WorkerStoreName(w) ==
    /\ Running
    /\ wPc[w] = "fwName"
    /\ LET key == StationBuffer(wChunk[w], wOffset[w])
           i == wNameIdx[w]
           at == NameIndex(key, i)
       IN  IF at >= StationNamesLength
           THEN /\ EndRecord(w, FALSE)
                /\ wNameIdx' = [wNameIdx EXCEPT ![w] = 0]
                /\ UNCHANGED <<stationNamesTypedArray, lateWrites>>
           ELSE /\ stationNamesTypedArray' = AtomicsStore(stationNamesTypedArray, at, key[i + 1])
                /\ lateWrites' = Late
                /\ IF i + 1 = Len(key)
                   THEN /\ EndRecord(w, TRUE)
                        /\ wNameIdx' = [wNameIdx EXCEPT ![w] = 0]
                   ELSE /\ wNameIdx' = [wNameIdx EXCEPT ![w] = i + 1]
                        /\ UNCHANGED <<wChunk, wOffset, wPc, wPosted, inbox>>
    /\ UNCHANGED <<wQueue, wLocal, wFirst, wStarted, typedArray>>
    /\ UNCHANGED <<input, pos, coordVars, stVars, parseVars>>
    /\ UNCHANGED <<errVars, fsVars>>

\* update branch: the loads of min, max and sum
WorkerUpdateLoad(w) ==
    /\ Running
    /\ wPc[w] \in {"upGetMin", "upGetMax", "upGetSum"}
    /\ LET key == StationBuffer(wChunk[w], wOffset[w])
       IN  /\ wLocal' = [wLocal EXCEPT ![w] =
                CASE wPc[w] = "upGetMin" -> get(typedArray, key, MIN_OFFSET)
                  [] wPc[w] = "upGetMax" -> get(typedArray, key, MAX_OFFSET)
                  [] wPc[w] = "upGetSum" -> get(typedArray, key, SUM_OFFSET)]
           /\ wPc' = [wPc EXCEPT ![w] =
                CASE wPc[w] = "upGetMin" -> "upMin"
                  [] wPc[w] = "upGetMax" -> "upMax"
                  [] wPc[w] = "upGetSum" -> "upSum"]
    /\ UNCHANGED <<wQueue, wChunk, wOffset, wNameIdx, wFirst, wStarted, wPosted, inbox, lateWrites>>
    /\ UNCHANGED <<input, pos, coordVars, tableVars, stVars, parseVars>>
    /\ UNCHANGED <<errVars, fsVars>>

\* update branch: the stores of count, min, max and sum
WorkerUpdateStore(w) ==
    /\ Running
    /\ wPc[w] \in {"upCount", "upMin", "upMax", "upSum"}
    /\ LET key == StationBuffer(wChunk[w], wOffset[w])
           temp == Temp(wChunk[w], wOffset[w])
       IN  /\ typedArray' =
                CASE wPc[w] = "upCount" -> set(typedArray, key, Int32Sum(wLocal[w], 1), COUNT_OFFSET)
                  [] wPc[w] = "upMin" -> set(typedArray, key, MathMin(wLocal[w], temp), MIN_OFFSET)
                  [] wPc[w] = "upMax" -> set(typedArray, key, MathMax(wLocal[w], temp), MAX_OFFSET)
                  [] wPc[w] = "upSum" -> set(typedArray, key, Int32Sum(temp, wLocal[w]), SUM_OFFSET)
           /\ IF wPc[w] = "upSum"
              THEN EndRecord(w, TRUE)
              ELSE /\ wPc' = [wPc EXCEPT ![w] =
                                CASE wPc[w] = "upCount" -> "upGetMin"
                                  [] wPc[w] = "upMin" -> "upGetMax"
                                  [] wPc[w] = "upMax" -> "upGetSum"]
                   /\ UNCHANGED <<wChunk, wOffset, wPosted, inbox>>
    /\ lateWrites' = Late
    /\ UNCHANGED <<wQueue, wLocal, wNameIdx, wFirst, wStarted, stationNamesTypedArray>>
    /\ UNCHANGED <<input, pos, coordVars, stVars, parseVars>>
    /\ UNCHANGED <<errVars, fsVars>>

----------------------------------------------------------------------------
(* scheduler-worker.js, worker thread: one record's update run alone *)

\* the table one worker leaves when it applies records one after the other, as
\* it does with a file delivered in one piece (one chunk, one worker)
ApplyRecord(ta, key, temp) ==
    IF get(ta, key, COUNT_OFFSET) = 0
    THEN set(set(set(set(ta, key, 1, COUNT_OFFSET), key, temp, MIN_OFFSET),
                 key, temp, MAX_OFFSET), key, temp, SUM_OFFSET)
    ELSE set(set(set(set(ta, key, Int32Sum(get(ta, key, COUNT_OFFSET), 1), COUNT_OFFSET),
                     key, MathMin(get(ta, key, MIN_OFFSET), temp), MIN_OFFSET),
                 key, MathMax(get(ta, key, MAX_OFFSET), temp), MAX_OFFSET),
             key, Int32Sum(temp, get(ta, key, SUM_OFFSET)), SUM_OFFSET)

RECURSIVE ApplyRecords(_, _, _)
ApplyRecords(recs, k, ta) ==
    IF k > Len(recs) THEN ta
    ELSE ApplyRecords(recs, k + 1, ApplyRecord(ta, recs[k][1], recs[k][2]))

\* a worker applies one more record of label key while no other worker runs
AccumulateRecord(key, temp) ==
    /\ Running
    /\ get(typedArray, key, COUNT_OFFSET) < (MaxInt32 \div fastParseFloat(HottestText)) + MaxRecords
    /\ typedArray' = ApplyRecord(typedArray, key, temp)
    /\ UNCHANGED <<input, pos, coordVars, workerVars, stationNamesTypedArray, stVars, parseVars, errVars, fsVars>>

----------------------------------------------------------------------------
(* scheduler-worker.js: failures *)

\* an exception escapes the worker's message handler (set and get catch their
\* own; what escapes is, for one, the RangeError of fastParseFloat's recursion
\* on a long run of minus bytes): the thread ends and the main thread is sent
\* an 'error' event
WorkerThrows(w) ==
    /\ Running
    /\ wPc[w] \notin {"idle", "failed"}
    /\ wPc' = [wPc EXCEPT ![w] = "failed"]
    /\ wErrors' = wErrors + 1
    /\ UNCHANGED <<wQueue, wChunk, wOffset, wLocal, wNameIdx, wFirst, wStarted, wPosted, inbox, lateWrites>>
    /\ UNCHANGED <<input, pos, coordVars, tableVars, stVars, parseVars, processExit, fsVars>>

\* mutant: the error is logged and the run goes on
OnWorkerErrorLogged ==
    /\ Running
    /\ wErrors > 0
    /\ wErrors' = wErrors - 1
    /\ UNCHANGED <<input, pos, coordVars, workerVars, tableVars, stVars, parseVars, processExit, fsVars>>

\* worker.addListener('error'): console.error, process.exit(1)
OnWorkerError ==
    /\ Running
    /\ wErrors > 0
    /\ wErrors' = wErrors - 1
    /\ processExit' = <<1>>
    /\ UNCHANGED <<input, pos, coordVars, workerVars, tableVars, stVars, parseVars, fsVars>>

----------------------------------------------------------------------------
(* worker-read-file.js 544-682: the single-thread variant *)

\* Buffer.toString(): ASCII bytes decode to themselves, a byte that is no
\* valid UTF-8 on its own to U+FFFD
BufferToString(buf) == [i \in 1 .. Len(buf) |-> IF buf[i] < 128 THEN buf[i] ELSE 65533]

\* map.get / map.set of one record
STApply(map, stationName, temp) ==
    IF stationName \notin DOMAIN map
    THEN [k \in (DOMAIN map) \cup {stationName} |->
            IF k = stationName THEN [min |-> temp, max |-> temp, sum |-> temp, count |-> 1]
            ELSE map[k]]
    ELSE [map EXCEPT ![stationName] =
            [min |-> MathMin(@.min, temp), max |-> MathMax(@.max, temp),
             sum |-> @.sum + temp, count |-> @.count + 1]]

\* the while loop of the 'data' handler: the map and the residual it leaves
RECURSIVE STLoop(_, _, _)
STLoop(chunk, offset, map) ==
    IF ~(offset < Len(chunk)) THEN [buffer |-> <<>>, map |-> map]
    ELSE LET semicolonIndex == IndexOf(chunk, semicolon, offset)
             newlineIndex == IndexOf(chunk, newline, offset)
         IN  IF semicolonIndex = -1 \/ newlineIndex = -1
             THEN [buffer |-> Slice(chunk, offset, Len(chunk)), map |-> map]
             ELSE STLoop(chunk, newlineIndex + 1,
                         STApply(map,
                                 BufferToString(Slice(chunk, offset, semicolonIndex)),
                                 fastParseFloat(Slice(chunk, semicolonIndex + 1, newlineIndex))))

\* the 'data' handler on one raw buffer
STDataHandler(residual, map, raw) == STLoop(PrependResidual(residual, raw), 0, map)

STData(n) ==
    /\ ~stEnded
    /\ n >= 1
    /\ stPos + n <= Len(input)
    /\ LET r == STDataHandler(stBuffer, stMap, SubSeq(input, stPos + 1, stPos + n))
       IN  /\ stBuffer' = r.buffer
           /\ stMap' = r.map
    /\ stCutInRecord' = (stCutInRecord \/ input[stPos + n] # newline)
    /\ stPos' = stPos + n
    /\ UNCHANGED <<input, pos, stEnded, coordVars, workerVars, tableVars, parseVars>>
    /\ UNCHANGED <<errVars, fsVars>>

\* stream.on('end'): printCompiledResults(map)
STEnd ==
    /\ ~stEnded
    /\ stPos = Len(input)
    /\ stEnded' = TRUE
    /\ UNCHANGED <<input, pos, stPos, stBuffer, stMap, stCutInRecord, coordVars, workerVars, tableVars, parseVars>>
    /\ UNCHANGED <<errVars, fsVars>>

----------------------------------------------------------------------------
(* baseline-improving/index.js (and worker-read-file.js 1-200, which differs  *)
(* in chunkSize only): the file is split by byte offset, every worker reads   *)
(* its own range into a local Map, the main thread merges the Maps.           *)

\* Math.ceil(a / b)
MathCeilDiv(a, b) == (a + b - 1) \div b

\* the while (true) loop that fills splitPoints: fileHandle.read() fills the
\* zeroed buffer with up to chunkSize bytes of the file from bytesRead on
RECURSIVE SplitLoop(_, _, _, _)
SplitLoop(file, maxBytesPerThread, bytesReadBefore, splitPoints) ==
    LET bytesRead == bytesReadBefore + maxBytesPerThread
        totalBytes == Len(file)
    IN  IF bytesRead >= totalBytes THEN Append(splitPoints, totalBytes)
        ELSE LET bufferForReadingFile == SubSeq(file, bytesRead + 1, MathMin(bytesRead + chunkSize, totalBytes))
                 newlineIndex == IndexOf(bufferForReadingFile, newline, 0)
             IN  SplitLoop(file, maxBytesPerThread, bytesRead,
                           Append(splitPoints, bytesRead + newlineIndex + 1))

SplitPoints(file, threads) == SplitLoop(file, MathCeilDiv(Len(file), threads), 0, <<>>)

\* workerData.start of worker i: <<>> stands for undefined (splitPoints[i - 1]
\* past the end of the array)
WorkerStart(splitPoints, i) ==
    IF i = 0 THEN <<0>> ELSE IF i <= Len(splitPoints) THEN <<splitPoints[i]>> ELSE <<>>

\* workerData.end of worker i: splitPoints[i] || totalBytes
WorkerEnd(splitPoints, i, totalBytes) ==
    IF i + 1 <= Len(splitPoints) /\ splitPoints[i + 1] # 0 THEN splitPoints[i + 1] ELSE totalBytes

\* fs.createReadStream(fileName, {start, end}): the bytes from start to end,
\* both inclusive, that the file has; without a start, from the first byte
RangeBytes(file, start, end) ==
    SubSeq(file, (IF start = <<>> THEN 0 ELSE start[1]) + 1, MathMin(end + 1, Len(file)))

\* the bytes worker w's stream delivers
WorkerBytes(w) ==
    RangeBytes(input, WorkerStart(SplitPoints(input, cpus), w),
               WorkerEnd(SplitPoints(input, cpus), w, Len(input)))

\* stationBuffer.toString('utf-8', 0, stationBufferIndex): stationBuffer has
\* 100 bytes, stores past its end are dropped
StationName(station) ==
    BufferToString(SubSeq(station, 1, MathMin(Len(station), STATION_NAME_BYTE_SIZE)))

\* specificNumberConversion(tempBuffer, tempBufferIndex - 1): tempBuffer has 5
\* bytes, a read past its end is undefined and makes the value NaN
TempValue(temp) ==
    IF Len(temp) <= 5 THEN specificNumberConversion(temp, Len(temp) - 1) ELSE "NaN"

\* one iteration of the for loop of the worker's 'data' handler
FsByte(st, byte) ==
    IF st.state = LOOKING_FOR_SEMICOLON
    THEN IF byte = semicolon
         THEN [st EXCEPT !.state = LOOKING_FOR_NEWLINE]
         ELSE [st EXCEPT !.station = Append(@, byte)]
    ELSE IF byte = newline
         THEN [st EXCEPT !.results = STApply(@, StationName(st.station), TempValue(st.temp)),
                         !.state = LOOKING_FOR_SEMICOLON,
                         !.station = <<>>,
                         !.temp = <<>>]
         ELSE [st EXCEPT !.temp = Append(@, byte)]

\* the for loop over a chunk, from index i (1-based here)
RECURSIVE FsScan(_, _, _)
FsScan(chunk, i, st) ==
    IF i > Len(chunk) THEN st ELSE FsScan(chunk, i + 1, FsByte(st, chunk[i]))

\* mutant: the merge keeps the main thread's count
MergeEntryCountKept(masterData, workerData) ==
    [min |-> MathMin(masterData.min, workerData.min),
     max |-> MathMax(masterData.max, workerData.max),
     sum |-> masterData.sum + workerData.sum,
     count |-> masterData.count]

\* the else branch of the merge
MergeEntry(masterData, workerData) ==
    [min |-> MathMin(masterData.min, workerData.min),
     max |-> MathMax(masterData.max, workerData.max),
     sum |-> masterData.sum + workerData.sum,
     count |-> masterData.count + workerData.count]

\* workerResults.forEach(...): the keys of a Map are distinct, so the order of
\* the iteration does not matter
MergeResults(master, workerResults) ==
    [key \in (DOMAIN master) \cup (DOMAIN workerResults) |->
        IF key \notin DOMAIN master THEN workerResults[key]
        ELSE IF key \notin DOMAIN workerResults THEN master[key]
        ELSE MergeEntry(master[key], workerResults[key])]

\* worker thread, stream.on('data'): the next bytes of the worker's range
FsData(w) ==
    /\ ~fsWorker[w].ended
    /\ fsWorker[w].read < Len(WorkerBytes(w))
    /\ LET n == MathMin(HighWaterMark, Len(WorkerBytes(w)) - fsWorker[w].read)
           chunk == SubSeq(WorkerBytes(w), fsWorker[w].read + 1, fsWorker[w].read + n)
       IN  fsWorker' = [fsWorker EXCEPT ![w] = [FsScan(chunk, 1, @) EXCEPT !.read = @ + n]]
    /\ UNCHANGED <<cpus, fsInbox, fsMergedFrom, aggregations, finishedWorker, fsPrintCount>>
    /\ UNCHANGED <<input, pos, coordVars, workerVars, tableVars, stVars, parseVars, errVars>>

\* worker thread, stream.on('end'): parentPort.postMessage(aggregations)
FsEnd(w) ==
    /\ ~fsWorker[w].ended
    /\ fsWorker[w].read = Len(WorkerBytes(w))
    /\ fsWorker' = [fsWorker EXCEPT ![w].ended = TRUE]
    /\ fsInbox' = fsInbox \cup {w}
    /\ UNCHANGED <<cpus, fsMergedFrom, aggregations, finishedWorker, fsPrintCount>>
    /\ UNCHANGED <<input, pos, coordVars, workerVars, tableVars, stVars, parseVars, errVars>>

\* main thread, worker.addListener('message'): merge, and print when every
\* worker has finished
FsOnMessage(w) ==
    /\ w \in fsInbox
    /\ fsInbox' = fsInbox \ {w}
    /\ finishedWorker' = finishedWorker + 1
    /\ aggregations' = MergeResults(aggregations, fsWorker[w].results)
    /\ fsMergedFrom' = fsMergedFrom \cup {w}
    /\ fsPrintCount' = IF finishedWorker + 1 = cpus THEN fsPrintCount + 1 ELSE fsPrintCount
    /\ UNCHANGED <<cpus, fsWorker>>
    /\ UNCHANGED <<input, pos, coordVars, workerVars, tableVars, stVars, parseVars, errVars>>

----------------------------------------------------------------------------
(* Driver of the number parsers: a value span -?d+.d *)

Digits(ds) == [i \in 1 .. Len(ds) |-> zero + ds[i]]

ValueSpan(neg, int, frac) ==
    (IF neg THEN <<minus>> ELSE <<>>) \o Digits(int) \o <<dot, zero + frac>>

ParseFast ==
    /\ pPc = "start"
    /\ pOut' = fastParseFloat(ValueSpan(pNeg, pInt, pFrac))
    /\ pPc' = "fast"
    /\ UNCHANGED <<pNeg, pInt, pFrac, pOutBase>>
    /\ UNCHANGED <<input, pos, coordVars, workerVars, tableVars, stVars>>
    /\ UNCHANGED <<errVars, fsVars>>

ParseBaseline ==
    /\ pPc = "fast"
    /\ LET span == ValueSpan(pNeg, pInt, pFrac)
       IN  pOutBase' = specificNumberConversion(span, Len(span) - 1)
    /\ pPc' = "done"
    /\ UNCHANGED <<pNeg, pInt, pFrac, pOut>>
    /\ UNCHANGED <<input, pos, coordVars, workerVars, tableVars, stVars>>
    /\ UNCHANGED <<errVars, fsVars>>

----------------------------------------------------------------------------
(* Inputs and specifications *)

EmptyArray == [i \in {} |-> 0]

\* the state once both scripts' top level has run, for the file inp: all but
\* the two typed arrays and the file-splitting design
InitMain(inp) ==
    /\ input = inp
    /\ pos = 0
    /\ buffer = <<>>
    /\ workerIndex = 0
    /\ sentChunk = 0
    /\ receivedChunk = 0
    /\ allSent = FALSE
    /\ printCount = 0
    /\ dispatched = <<>>
    /\ cutInRecord = FALSE
    /\ wQueue = [w \in Workers |-> <<>>]
    /\ wChunk = [w \in Workers |-> <<>>]
    /\ wOffset = [w \in Workers |-> 0]
    /\ wPc = [w \in Workers |-> "idle"]
    /\ wLocal = [w \in Workers |-> 0]
    /\ wNameIdx = [w \in Workers |-> 0]
    /\ wFirst = [w \in Workers |-> <<>>]
    /\ wStarted = [w \in Workers |-> <<>>]
    /\ wPosted = [w \in Workers |-> 0]
    /\ inbox = 0
    /\ lateWrites = FALSE
    /\ stPos = 0
    /\ stBuffer = <<>>
    /\ stMap = EmptyArray
    /\ stEnded = FALSE
    /\ stCutInRecord = FALSE
    /\ wErrors = 0
    /\ processExit = <<>>

\* the file-splitting scripts are not run
FsOff ==
    /\ cpus = 0
    /\ fsWorker = <<>>
    /\ fsInbox = {}
    /\ fsMergedFrom = {}
    /\ aggregations = EmptyArray
    /\ finishedWorker = 0
    /\ fsPrintCount = 0

InitRest(inp) == InitMain(inp) /\ FsOff

InitFile(inp) ==
    /\ InitRest(inp)
    /\ typedArray = EmptyArray
    /\ stationNamesTypedArray = EmptyArray

ParserIdle ==
    /\ pNeg = FALSE
    /\ pInt = <<>>
    /\ pFrac = 0
    /\ pOut = 0
    /\ pOutBase = 0
    /\ pPc = "off"

\* files of well-formed records: labels "A" and "B" (slots 7645 and 5291),
\* values 1.5 and -2.0
Labels == {<<65>>, <<66>>}
ValueTexts == {ValueSpan(FALSE, <<1>>, 5), ValueSpan(TRUE, <<2>>, 0)}
Records == {l \o <<semicolon>> \o v \o <<newline>> : l \in Labels, v \in ValueTexts}
RecordFiles == {Concat(rs) : rs \in UNION {[1 .. k -> Records] : k \in 0 .. MaxRecords}}

\* the engine on a file of records; the stream delivers full reads
FullRead == MathMin(HighWaterMark, Len(input) - pos)

Init == (\E inp \in RecordFiles : InitFile(inp)) /\ ParserIdle

Next ==
    \/ StreamData(FullRead)
    \/ StreamEnd
    \/ OnWorkerMessage
    \/ \E w \in Workers : WorkerReceive(w)
    \/ \E w \in Workers : WorkerGetCount(w)
    \/ \E w \in Workers : WorkerFirstStore(w)
    \/ \E w \in Workers : WorkerStoreName(w)
    \/ \E w \in Workers : WorkerUpdateLoad(w)
    \/ \E w \in Workers : WorkerUpdateStore(w)

Spec == Init /\ [][Next]_vars

\* the engine when every read returns about half of what the stream asks for,
\* so that a file of MaxRecords records is more chunks than there are workers
ShortRead == MathMin((HighWaterMark + 1) \div 2, Len(input) - pos)

NextShort ==
    \/ StreamData(ShortRead)
    \/ StreamEnd
    \/ OnWorkerMessage
    \/ \E w \in Workers : WorkerReceive(w)
    \/ \E w \in Workers : WorkerGetCount(w)
    \/ \E w \in Workers : WorkerFirstStore(w)
    \/ \E w \in Workers : WorkerStoreName(w)
    \/ \E w \in Workers : WorkerUpdateLoad(w)
    \/ \E w \in Workers : WorkerUpdateStore(w)

SpecShort == Init /\ [][NextShort]_vars

\* the engine on files at the edges of the record format, with workers that
\* may fail.  Labels "G" and ",S" share slot 5880.
CollidingLabels == {<<71>>, <<44, 83>>}
CollidingRecords == {l \o <<semicolon>> \o v \o <<newline>> : l \in CollidingLabels, v \in ValueTexts}
CollidingFiles == {Concat(rs) : rs \in UNION {[1 .. k -> CollidingRecords] : k \in 0 .. (MaxRecords - 1)}}

\* lines outside the record format: "A;1x5" (a letter in the value) and "A1.5"
\* (no separator), alone or after the record "A;1.5"
MalformedLines == {<<65, 59, 49, 120, 53, 10>>, <<65, 49, 46, 53, 10>>}
MalformedFiles == MalformedLines \cup {<<65, 59, 49, 46, 53, 10>> \o l : l \in MalformedLines}

\* one record whose label is "A" repeated: as long as a label cell, and one
\* byte longer
LongLabel(n) == [i \in 1 .. n |-> 65]
LongLabelFiles ==
    {LongLabel(n) \o <<semicolon>> \o v \o <<newline>> :
        n \in {STATION_NAME_BYTE_SIZE, STATION_NAME_BYTE_SIZE + 1}, v \in ValueTexts}

\* files that do not end with a line terminator: records of label "A", then
\* "B" or a record of label "B" without its newline
TrailingBytes == {<<66>>} \cup {<<66, semicolon>> \o v : v \in ValueTexts}
UnterminatedFiles ==
    {Concat(rs) \o t :
        rs \in UNION {[1 .. k -> {<<65, semicolon>> \o v \o <<newline>> : v \in ValueTexts}] :
                        k \in 0 .. (MaxRecords - 1)},
        t \in TrailingBytes}

EdgeFiles == CollidingFiles \cup MalformedFiles \cup LongLabelFiles \cup UnterminatedFiles

InitEdge == (\E inp \in EdgeFiles : InitFile(inp)) /\ ParserIdle

NextEdge ==
    \/ StreamData(FullRead)
    \/ StreamEnd
    \/ OnWorkerMessage
    \/ \E w \in Workers : WorkerReceive(w)
    \/ \E w \in Workers : WorkerGetCount(w)
    \/ \E w \in Workers : WorkerFirstStore(w)
    \/ \E w \in Workers : WorkerStoreName(w)
    \/ \E w \in Workers : WorkerUpdateLoad(w)
    \/ \E w \in Workers : WorkerUpdateStore(w)
    \/ \E w \in Workers : WorkerThrows(w)
    \/ OnWorkerError

SpecEdge == InitEdge /\ [][NextEdge]_vars

\* the table of a long run: label "A" has been applied some two million times
\* with the value 99.9, by one worker; then more records of "A" are applied
PreloadCount == MaxInt32 \div fastParseFloat(HottestText)
PreloadedTable(c) ==
    set(set(set(set(EmptyArray, <<65>>, c, COUNT_OFFSET),
                <<65>>, fastParseFloat(HottestText), MIN_OFFSET),
            <<65>>, fastParseFloat(HottestText), MAX_OFFSET),
        <<65>>, c * fastParseFloat(HottestText), SUM_OFFSET)
SumTemps == {fastParseFloat(v) : v \in ValueTexts \cup {HottestText}}

InitSum ==
    /\ \E c \in (PreloadCount - (20 * MaxRecords)) .. PreloadCount :
            typedArray = PreloadedTable(c)
    /\ stationNamesTypedArray = AtomicsStore(EmptyArray, NameIndex(<<65>>, 0), 65)
    /\ InitRest(<<>>)
    /\ ParserIdle

NextSum == \E temp \in SumTemps : AccumulateRecord(<<65>>, temp)

SpecSum == InitSum /\ [][NextSum]_vars

\* the table of a longer run still: one worker has applied label "A" with the
\* value 1.5 a number of times just short of 2^32, so that the int32 count
\* reads -n and the int32 sum -15 n, n being the records missing to 2^32
WrappedTable(n) ==
    set(set(set(set(EmptyArray, <<65>>, 0 - n, COUNT_OFFSET),
                <<65>>, fastParseFloat(ValueSpan(FALSE, <<1>>, 5)), MIN_OFFSET),
            <<65>>, fastParseFloat(ValueSpan(FALSE, <<1>>, 5)), MAX_OFFSET),
        <<65>>, 0 - (n * fastParseFloat(ValueSpan(FALSE, <<1>>, 5))), SUM_OFFSET)

InitWrap ==
    /\ \E n \in 1 .. (20 * MaxRecords) : typedArray = WrappedTable(n)
    /\ stationNamesTypedArray = AtomicsStore(EmptyArray, NameIndex(<<65>>, 0), 65)
    /\ InitRest(<<>>)
    /\ ParserIdle

NextWrap ==
    \E temp \in SumTemps :
        /\ get(typedArray, <<65>>, COUNT_OFFSET) < MaxRecords
        /\ AccumulateRecord(<<65>>, temp)

SpecWrap == InitWrap /\ [][NextWrap]_vars

\* the engine on files whose labels go to the ends of the table: "LOI" to
\* slot 0; "IDW", a label of 100 bytes and one of 101 bytes to slot 10006
FirstSlotLabel == <<76, 79, 73>>
LastSlotLabels ==
    {<<73, 68, 87>>, LongLabel(97) \o <<77, 70, 78>>, LongLabel(98) \o <<49, 53, 119>>}
BoundaryFiles ==
    {l \o <<semicolon>> \o ValueSpan(FALSE, <<1>>, 5) \o <<newline>> : l \in LastSlotLabels \cup {FirstSlotLabel}}
        \cup {<<73, 68, 87, semicolon>> \o v \o <<newline, 73, 68, 87, semicolon>> \o v \o <<newline>> : v \in ValueTexts}

InitBoundary == (\E inp \in BoundaryFiles : InitFile(inp)) /\ ParserIdle

SpecBoundary == InitBoundary /\ [][Next]_vars

\* the engine on a machine of one core, so with worker 0 alone, on files of
\* records some of whose labels share a slot; short reads, so that the worker
\* is sent several chunks
SoloFiles == RecordFiles \cup {f \o g : f \in CollidingFiles, g \in Records}

InitSolo == (\E inp \in SoloFiles : InitFile(inp)) /\ ParserIdle

NextSolo ==
    \/ SoloData(ShortRead)
    \/ StreamEnd
    \/ OnWorkerMessage
    \/ WorkerReceive(0)
    \/ WorkerGetCount(0)
    \/ WorkerFirstStore(0)
    \/ WorkerStoreName(0)
    \/ WorkerUpdateLoad(0)
    \/ WorkerUpdateStore(0)

SpecSolo == InitSolo /\ [][NextSolo]_vars

\* the file-splitting design on files of records "A;1.5", "A;-2.0" and
\* "B;-2.0", on machines of 1 to MaxCpus cores
SplitDesignRecords ==
    {<<65, semicolon>> \o v \o <<newline>> : v \in ValueTexts}
        \cup {<<66, semicolon>> \o ValueSpan(TRUE, <<2>>, 0) \o <<newline>>}
SplitDesignFiles ==
    {Concat(rs) : rs \in UNION {[1 .. k -> SplitDesignRecords] : k \in 0 .. MaxRecords}}

InitFileSplit ==
    /\ \E inp \in SplitDesignFiles : InitMain(inp)
    /\ typedArray = EmptyArray
    /\ stationNamesTypedArray = EmptyArray
    /\ ParserIdle
    /\ cpus \in 1 .. MaxCpus
    /\ fsWorker = [w \in 0 .. (cpus - 1) |->
                      [read |-> 0, state |-> LOOKING_FOR_SEMICOLON, station |-> <<>>,
                       temp |-> <<>>, results |-> EmptyArray, ended |-> FALSE]]
    /\ fsInbox = {}
    /\ fsMergedFrom = {}
    /\ aggregations = EmptyArray
    /\ finishedWorker = 0
    /\ fsPrintCount = 0

NextFileSplit ==
    \/ \E w \in DOMAIN fsWorker : FsData(w)
    \/ \E w \in DOMAIN fsWorker : FsEnd(w)
    \/ \E w \in DOMAIN fsWorker : FsOnMessage(w)

SpecFileSplit == InitFileSplit /\ [][NextFileSplit]_vars

\* the chunk splitters on any file over a small alphabet, cut into raw
\* buffers in every possible way
SplitAlphabet == {newline, semicolon, zero + 1}
SplitFiles == UNION {[1 .. k -> SplitAlphabet] : k \in 0 .. MaxInput}

InitSplit == (\E inp \in SplitFiles : InitFile(inp)) /\ ParserIdle

NextSplit ==
    \/ \E n \in 1 .. HighWaterMark : StreamData(n)
    \/ StreamEnd
    \/ \E n \in 1 .. HighWaterMark : STData(n)
    \/ STEnd

SpecSplit == InitSplit /\ [][NextSplit]_vars

\* the number parsers on every value span of the record format
DigitSeqs == UNION {[1 .. k -> 0 .. 9] : k \in 1 .. MaxIntDigits}

InitParse ==
    /\ InitFile(<<>>)
    /\ pNeg \in BOOLEAN
    /\ pInt \in DigitSeqs
    /\ pFrac \in 0 .. 9
    /\ pOut = 0
    /\ pOutBase = 0
    /\ pPc = "start"

NextParse == ParseFast \/ ParseBaseline

SpecParse == InitParse /\ [][NextParse]_vars

----------------------------------------------------------------------------
(* Properties: vocabulary *)

Range(f) == {f[i] : i \in DOMAIN f}

\* the spans dispatched so far, in dispatch order
Spans == [k \in 1 .. Len(dispatched) |-> dispatched[k].span]

\* what the workers' record loops find in the first k dispatched spans
RECURSIVE DispatchedLines(_)
DispatchedLines(k) ==
    IF k = 0 THEN <<>> ELSE DispatchedLines(k - 1) \o RecordSpans(dispatched[k].span, 0)

RECURSIVE DispatchedRecords(_)
DispatchedRecords(k) ==
    IF k = 0 THEN <<>> ELSE DispatchedRecords(k - 1) \o ScanChunk(dispatched[k].span, 0)

NewlineTerminated(bytes) == bytes = <<>> \/ bytes[Len(bytes)] = newline

\* every line holds a separator
SeparatedLines(bytes) == \A k \in DOMAIN RecordSpans(bytes, 0) : semicolon \in Range(RecordSpans(bytes, 0)[k])

\* bytes of the input that precede the k-th dispatched span
RECURSIVE SpanStart(_)
SpanStart(k) == IF k = 1 THEN 0 ELSE SpanStart(k - 1) + Len(dispatched[k - 1].span)

----------------------------------------------------------------------------
(* Chunk splitter: checked under SpecSplit *)

\* C6: at every moment the dispatched spans, concatenated in dispatch order
\* and followed by the residual buffer, are exactly the bytes the stream has
\* delivered so far: no byte is lost, duplicated or reordered.
C6_SpansPlusResidualAreTheStream ==
    Concat(Spans) \o buffer = SubSeq(input, 1, pos)

\* the stream has ended after several reads, leaving spans and a residual
C6_Witness ==
    /\ allSent
    /\ pos >= 4
    /\ Len(dispatched) >= 2
    /\ Len(buffer) >= 1
    /\ cutInRecord

\* C7: every dispatched span is non-empty, starts where a record starts and
\* ends with a line terminator (so it holds whole records only), and the
\* residual kept after a data event holds no line terminator.
C7_SpansAreWholeRecords ==
    /\ \A k \in 1 .. Len(dispatched) :
        LET span == dispatched[k].span
        IN  /\ Len(span) >= 1
            /\ span[Len(span)] = newline
            /\ SpanStart(k) = 0 \/ input[SpanStart(k)] = newline
    /\ newline \notin Range(buffer)

\* a span of two records was cut out of a read that ended inside a third
C7_Witness ==
    /\ Len(dispatched) >= 2
    /\ \E k \in 1 .. Len(dispatched) : Len(RecordSpans(dispatched[k].span, 0)) >= 2
    /\ Len(buffer) >= 1
    /\ cutInRecord

\* The splitter's part of C8: once a newline-terminated input has been
\* delivered, in whatever raw buffers, the records the workers' loops find in
\* the dispatched spans are, in order, the records of the input taken in one
\* piece (their <<label, value>> too when every line holds a separator); and
\* the single-thread variant ends with the map and the residual it has when
\* given the input in one piece.
SplitRecordsIndependentOfCuts ==
    /\ (allSent /\ NewlineTerminated(input)) =>
        /\ DispatchedLines(Len(dispatched)) = RecordSpans(input, 0)
        /\ SeparatedLines(input) => DispatchedRecords(Len(dispatched)) = ScanChunk(input, 0)
    /\ (stEnded /\ NewlineTerminated(input)) =>
        /\ stMap = STDataHandler(<<>>, EmptyArray, input).map
        /\ stBuffer = STDataHandler(<<>>, EmptyArray, input).buffer

\* two records of one label were delivered with cuts inside records, to both variants
SplitRecordsCutInside ==
    /\ allSent
    /\ stEnded
    /\ cutInRecord
    /\ stCutInRecord
    /\ NewlineTerminated(input)
    /\ SeparatedLines(input)
    /\ Len(DispatchedRecords(Len(dispatched))) = 2
    /\ Len(dispatched) = 2
    /\ \E l \in DOMAIN stMap : stMap[l].count = 2

\* C10: the k-th span (from 0) went to worker k mod THREADS_COUNT and to no
\* other: each worker's queue holds exactly the spans dispatched to it, in
\* order, and the queues together hold sentChunk messages.
C10_RoundRobin ==
    /\ \A k \in 1 .. Len(dispatched) : dispatched[k].worker = (k - 1) % THREADS_COUNT
    /\ \A w \in Workers :
        /\ Len(wQueue[w]) = Cardinality({k \in 1 .. Len(dispatched) : (k - 1) % THREADS_COUNT = w})
        /\ \A j \in 1 .. Len(wQueue[w]) :
            wQueue[w][j] = BufferMessage(dispatched[(j - 1) * THREADS_COUNT + w + 1].span)
    /\ sentChunk = Len(dispatched)
    /\ workerIndex = sentChunk % THREADS_COUNT

\* the round-robin has wrapped around: worker 0 holds a second span
C10_Witness ==
    /\ Len(dispatched) >= THREADS_COUNT + 1
    /\ Len(wQueue[0]) >= 2
    /\ dispatched[THREADS_COUNT + 1].worker = 0

----------------------------------------------------------------------------
(* Number parser: checked under SpecParse *)

\* the integer a digit sequence denotes, left to right
RECURSIVE DigitsValue(_, _)
DigitsValue(ds, acc) == IF ds = <<>> THEN acc ELSE DigitsValue(Tail(ds), (10 * acc) + Head(ds))

ExactTenths == (IF pNeg THEN -1 ELSE 1) * ((DigitsValue(pInt, 0) * 10) + pFrac)

\* C9: on a value span -?d+.d fastParseFloat returns the exact number of
\* tenths, sign * (integer part * 10 + fractional digit), and so does the
\* baseline's specificNumberConversion.
C9_ExactTenths ==
    /\ pPc \in {"fast", "done"} => pOut = ExactTenths
    /\ pPc = "done" => pOutBase = ExactTenths

\* "-23.4" has been parsed to -234 by both
C9_Witness ==
    /\ pPc = "done"
    /\ pNeg
    /\ pInt = <<2, 3>>
    /\ pFrac = 4
    /\ pOut = -234
    /\ pOutBase = -234

----------------------------------------------------------------------------
(* Shared-table engine: checked under Spec *)

\* no worker holds or awaits a chunk: every dispatched chunk is fully applied
Quiescent == \A w \in Workers : wQueue[w] = <<>> /\ wPc[w] = "idle"

Reporting == printCount > 0

\* the slot of a label, and a numeric field of that slot
SlotOf(label) == getIndex(label, 1)
Field(slot, offset) == AtomicsLoad(typedArray, (slot * BLOCK_SIZE) + offset)

\* the 100-byte label cell of a slot, and a label zero-padded to a cell
LabelCell(slot) ==
    [i \in 1 .. STATION_NAME_BYTE_SIZE |->
        AtomicsLoad(stationNamesTypedArray, (slot * STATION_NAME_BYTE_SIZE) + i - 1)]
ZeroPadded(label) ==
    [i \in 1 .. STATION_NAME_BYTE_SIZE |-> IF i <= Len(label) THEN label[i] ELSE 0]

\* of a sequence of <<label, temp>>: the positions that go to a slot, their
\* temps, and sums over positions
InSlot(recs, slot) == {k \in DOMAIN recs : SlotOf(recs[k][1]) = slot}
SlotsOf(recs) == {SlotOf(recs[k][1]) : k \in DOMAIN recs}
TempsAt(recs, ks) == {recs[k][2] : k \in ks}
RECURSIVE SumAt(_, _)
SumAt(recs, ks) ==
    IF ks = {} THEN 0
    ELSE LET k == CHOOSE x \in ks : TRUE IN recs[k][2] + SumAt(recs, ks \ {k})

\* distinct labels of the records never share a slot
NoSharedSlot(recs) ==
    \A j, k \in DOMAIN recs : SlotOf(recs[j][1]) = SlotOf(recs[k][1]) => recs[j][1] = recs[k][1]

\* the records of the file, and those of the chunks dispatched so far
FileRecords == ScanChunk(input, 0)
AppliedRecords == DispatchedRecords(Len(dispatched))

\* the records that took the first-writer path, over all workers
FirstWriterRecords == Concat([i \in 1 .. THREADS_COUNT |-> wFirst[i - 1]])

\* C1 (as claimed): when the reporter runs, every label's slot holds the
\* number of the file's records with that label, the extremes of their values
\* and their total, for any interleaving of the workers.
C1_ExactAggregatesAtReport ==
    (Reporting /\ NoSharedSlot(FileRecords)) =>
        \A slot \in SlotsOf(FileRecords) :
            LET ks == InSlot(FileRecords, slot)
            IN  /\ Field(slot, COUNT_OFFSET) = Cardinality(ks)
                /\ Field(slot, MIN_OFFSET) = SetMin(TempsAt(FileRecords, ks))
                /\ Field(slot, MAX_OFFSET) = SetMax(TempsAt(FileRecords, ks))
                /\ Field(slot, SUM_OFFSET) = SumAt(FileRecords, ks)

\* C2: printCompiledResults runs only once the stream has ended, every byte
\* has been delivered and every dispatched chunk has been applied in full by
\* its worker; and no worker ever stores into the table after it has begun.
C2_ReportOnlyAfterAllApplied ==
    /\ Reporting => (allSent /\ pos = Len(input) /\ Quiescent /\ inbox = 0)
    /\ Reporting => receivedChunk = sentChunk
    /\ ~lateWrites

\* the report has begun after both workers applied a chunk each
C2_Witness ==
    /\ Reporting
    /\ sentChunk = 2
    /\ wPosted[0] = 1
    /\ wPosted[1] = 1
    /\ Len(AppliedRecords) = 3

\* no handler is pending and no event is to come: the stream has ended, no
\* completion message awaits the coordinator and no worker holds or awaits a
\* chunk.  No action of Next is enabled in such a state.
Halted == allSent /\ inbox = 0 /\ Quiescent

\* C3 (as claimed, for files of at least one record): the run reaches
\* printCompiledResults whatever the order of the stream's 'end' and the
\* workers' completion messages; so it never comes to a halt, every handler
\* run and every worker drained, without the report having begun.
C3_NoHaltBeforeReport == (input # <<>> /\ Halted) => Reporting

\* the table after one worker has applied the whole file
OnePieceTable == ApplyRecords(FileRecords, 1, EmptyArray)

\* C8 (as claimed, for the engine's aggregates): when the reporter runs on a
\* newline-terminated file, delivered in whatever raw buffers, every slot holds
\* the count, min, max and sum it holds when the file is delivered in one piece.
C8_AggregatesIndependentOfCuts ==
    (Reporting /\ NewlineTerminated(input)) =>
        \A slot \in SlotsOf(FileRecords) :
            \A offset \in {COUNT_OFFSET, MIN_OFFSET, MAX_OFFSET, SUM_OFFSET} :
                Field(slot, offset) = AtomicsLoad(OnePieceTable, (slot * BLOCK_SIZE) + offset)

\* C4 (as claimed): once the updates of a slot are complete, its min and max
\* lie between the smallest and the largest value applied to it, min <= max,
\* and its sum is the sum of some of the applied values.
C4_FieldsWithinAppliedRange ==
    Quiescent =>
        \A slot \in SlotsOf(AppliedRecords) :
            LET ks == InSlot(AppliedRecords, slot)
                lo == SetMin(TempsAt(AppliedRecords, ks))
                hi == SetMax(TempsAt(AppliedRecords, ks))
            IN  /\ lo <= Field(slot, MIN_OFFSET) /\ Field(slot, MIN_OFFSET) <= hi
                /\ lo <= Field(slot, MAX_OFFSET) /\ Field(slot, MAX_OFFSET) <= hi
                /\ Field(slot, MIN_OFFSET) <= Field(slot, MAX_OFFSET)
                /\ \E sub \in (SUBSET ks) \ {{}} : Field(slot, SUM_OFFSET) = SumAt(AppliedRecords, sub)

\* C5 (as claimed): when every record applied to a slot took the first-writer
\* path, and there are two or more of them, then once they are complete count
\* is their number, sum their total, min and max their extremes, and the label
\* cell is one of their labels, zero-padded.
C5_ConcurrentFirstWritersIntact ==
    Quiescent =>
        \A slot \in SlotsOf(FirstWriterRecords) :
            LET fw == InSlot(FirstWriterRecords, slot)
            IN  (Cardinality(fw) >= 2 /\ Cardinality(fw) = Cardinality(InSlot(AppliedRecords, slot))) =>
                    /\ Field(slot, COUNT_OFFSET) = Cardinality(fw)
                    /\ Field(slot, SUM_OFFSET) = SumAt(FirstWriterRecords, fw)
                    /\ Field(slot, MIN_OFFSET) = SetMin(TempsAt(FirstWriterRecords, fw))
                    /\ Field(slot, MAX_OFFSET) = SetMax(TempsAt(FirstWriterRecords, fw))
                    /\ \E k \in fw : LabelCell(slot) = ZeroPadded(FirstWriterRecords[k][1])

----------------------------------------------------------------------------
(* Termination protocol: checked under Spec and SpecShort *)

\* C11 (as claimed): the step that handles the stream's 'end' leaves, at the
\* end of every worker's message queue (so after every chunk sent to it), the
\* termination sentinel WORKER_DONE_MESSAGE.
C11_SentinelSentOnEnd ==
    [][StreamEnd =>
        \A w \in Workers :
            /\ wQueue'[w] # <<>>
            /\ IsDoneMessage(wQueue'[w][Len(wQueue'[w])])]_vars

\* C12 (as claimed): a worker posts its completion message at most once, and
\* once it has posted it, it holds no chunk and no chunk awaits it.
C12_DrainedOncePerWorker ==
    \A w \in Workers :
        /\ wPosted[w] <= 1
        /\ wPosted[w] >= 1 => (wQueue[w] = <<>> /\ wPc[w] = "idle")

----------------------------------------------------------------------------
(* Failures and the edges of the record format: checked under SpecEdge *)

\* workers whose thread ended with an uncaught exception, and the 'error'
\* events the main thread has handled
FailedWorkers == {w \in Workers : wPc[w] = "failed"}
ErrorsHandled == Cardinality(FailedWorkers) - wErrors

\* C13: once the main thread has handled a worker's 'error' event the process
\* has exited with code 1, and a process that has exited has not invoked
\* printCompiledResults (nor can it later: nothing runs after process.exit).
C13_AbortOnWorkerError ==
    /\ ErrorsHandled > 0 => processExit = <<1>>
    /\ processExit # <<>> => (processExit = <<1>> /\ printCount = 0)

\* a worker failed while the other had completed its chunk, and the run aborted
C13_Witness ==
    /\ processExit = <<1>>
    /\ ErrorsHandled = 1
    /\ receivedChunk >= 1
    /\ sentChunk = 2

\* a line of the record format: a separator, then a value span of digits, one
\* leading minus and the dot only
ValueBytesOk(v) ==
    \A i \in 1 .. Len(v) :
        \/ v[i] \in zero .. (zero + 9)
        \/ v[i] = dot
        \/ v[i] = minus /\ i = 1
Malformed(line) ==
    \/ semicolon \notin Range(line)
    \/ ~ValueBytesOk(Slice(line, IndexOf(line, semicolon, 0) + 1, Len(line)))
MalformedLinesOf(bytes) == {k \in DOMAIN RecordSpans(bytes, 0) : Malformed(RecordSpans(bytes, 0)[k])}

\* C14 (as claimed): a malformed record is never applied to the table.  Of a
\* file whose lines are all malformed nothing reaches the table; and once the
\* workers are done with a file that holds a malformed line, the run has
\* aborted or a worker has failed.
C14_MalformedNeverApplied ==
    /\ MalformedLinesOf(input) = DOMAIN RecordSpans(input, 0) =>
            (typedArray = EmptyArray /\ stationNamesTypedArray = EmptyArray)
    /\ (MalformedLinesOf(input) # {} /\ allSent /\ Quiescent) =>
            (processExit # <<>> \/ FailedWorkers # {})

\* the indices of the label side-table that make up the cell of a slot
CellIndices(slot) ==
    (slot * STATION_NAME_BYTE_SIZE) .. ((slot * STATION_NAME_BYTE_SIZE) + STATION_NAME_BYTE_SIZE - 1)

\* C15 (as claimed): once the workers are done, a label of exactly 100 bytes
\* fills the cell of its slot and no byte of it lies outside that cell; and of
\* a file whose labels are longer than 100 bytes no byte is ever written to the
\* label side-table.
C15_LabelBound ==
    /\ (allSent /\ Quiescent /\ FailedWorkers = {}) =>
            \A k \in DOMAIN FileRecords :
                Len(FileRecords[k][1]) = STATION_NAME_BYTE_SIZE =>
                    /\ LabelCell(SlotOf(FileRecords[k][1])) = FileRecords[k][1]
                    /\ DOMAIN stationNamesTypedArray \subseteq CellIndices(SlotOf(FileRecords[k][1]))
    /\ (FileRecords # <<>> /\ \A k \in DOMAIN FileRecords : Len(FileRecords[k][1]) > STATION_NAME_BYTE_SIZE) =>
            stationNamesTypedArray = EmptyArray

\* every chunk went to the same worker
OneWorker == \A k \in DOMAIN dispatched : dispatched[k].worker = dispatched[1].worker

\* the slots that distinct labels of the records share
SharedSlots(recs) ==
    {slot \in SlotsOf(recs) :
        \E j, k \in InSlot(recs, slot) : recs[j][1] # recs[k][1]}

\* C16: when distinct labels of a file share a slot and one worker has applied
\* the whole file, the slot's count is the number of records of all those
\* labels, its min and max are the extremes and its sum the total over all of
\* them, its label cell holds the label of the first of these records alone,
\* and no error has been raised.
C16_CollisionsMerge ==
    (allSent /\ Quiescent /\ FailedWorkers = {} /\ OneWorker) =>
        \A slot \in SharedSlots(FileRecords) :
            LET ks == InSlot(FileRecords, slot)
            IN  /\ Field(slot, COUNT_OFFSET) = Cardinality(ks)
                /\ Field(slot, MIN_OFFSET) = SetMin(TempsAt(FileRecords, ks))
                /\ Field(slot, MAX_OFFSET) = SetMax(TempsAt(FileRecords, ks))
                /\ Field(slot, SUM_OFFSET) = SumAt(FileRecords, ks)
                /\ LabelCell(slot) = ZeroPadded(FileRecords[SetMin(ks)][1])
                /\ Running
                /\ wErrors = 0

\* one worker has applied "G;1.5" and then ",S;1.5", which share slot 5880
C16_Witness ==
    /\ allSent
    /\ Quiescent
    /\ OneWorker
    /\ Len(FileRecords) = 2
    /\ FileRecords[1][1] = <<71>>
    /\ FileRecords[2][1] = <<44, 83>>
    /\ SharedSlots(FileRecords) = {5880}
    /\ Field(5880, COUNT_OFFSET) = 2
    /\ LabelCell(5880) = ZeroPadded(<<71>>)

\* the labels of a sequence of records
LabelsOf(recs) == {recs[k][1] : k \in DOMAIN recs}

\* C18: the slot is a function of the label's bytes alone.  Whichever worker
\* stored it and on whichever call, every numeric field in the table lies in
\* the slot of the label of a dispatched record, every label byte in the table
\* is a byte of such a label at its place from the start of that slot's cell
\* (inside the cell when the label has at most 100 bytes), and that slot's
\* numeric fields are the ones written for it: index / 4 = index / 100.
C18_SlotIsFunctionOfLabel ==
    \* each label is hashed once for the numeric fields and once for the cell
    \A index \in {[key \in LabelsOf(AppliedRecords) |->
                        <<getIndex(key, BLOCK_SIZE), NameIndex(key, 0)>>]} :
        /\ \A key \in DOMAIN index :
                index[key][1] \div BLOCK_SIZE = index[key][2] \div STATION_NAME_BYTE_SIZE
        /\ \A i \in DOMAIN typedArray :
                \E key \in DOMAIN index : i \div BLOCK_SIZE = index[key][1] \div BLOCK_SIZE
        /\ \A i \in DOMAIN stationNamesTypedArray :
                \E key \in DOMAIN index :
                    /\ (i - index[key][2]) \in 0 .. (Len(key) - 1)
                    /\ stationNamesTypedArray[i] = key[(i - index[key][2]) + 1]
                    /\ Len(key) <= STATION_NAME_BYTE_SIZE
                           => i \div STATION_NAME_BYTE_SIZE = index[key][1] \div BLOCK_SIZE
                    /\ index[key][1] + COUNT_OFFSET \in DOMAIN typedArray

\* both workers have applied a record of label "G" each, to slot 5880
C18_Witness ==
    /\ Quiescent
    /\ wPosted[0] = 1
    /\ wPosted[1] = 1
    /\ Len(AppliedRecords) = 2
    /\ \A k \in DOMAIN AppliedRecords : AppliedRecords[k][1] = <<71>>
    /\ DOMAIN typedArray = {(5880 * BLOCK_SIZE) + o : o \in 0 .. 3}
    /\ DOMAIN stationNamesTypedArray = {5880 * STATION_NAME_BYTE_SIZE}

\* the input up to and including its last line terminator, and what follows it
Terminated == SubSeq(input, 1, LastIndexOf(input, newline) + 1)
Trailing == SubSeq(input, LastIndexOf(input, newline) + 2, Len(input))

\* C20: of an input that does not end with a line terminator, every
\* dispatched span lies within the part that ends with the last terminator;
\* the table holds fields and label bytes only at the slots of the labels of
\* that part; once the stream has ended the spans are exactly that part and
\* the bytes after it are what is left in buffer, for good; and unless a
\* worker has failed no 'error' event is pending and the process has not
\* exited.
C20_TrailingBytesDropped ==
    Trailing # <<>> =>
        /\ Len(Concat(Spans)) <= Len(Terminated)
        /\ Concat(Spans) = SubSeq(Terminated, 1, Len(Concat(Spans)))
        /\ \A m \in UNION {Range(wQueue[w]) : w \in Workers} :
                ~IsDoneMessage(m) => \E k \in DOMAIN dispatched : m.bytes = dispatched[k].span
        /\ allSent => (Concat(Spans) = Terminated /\ buffer = Trailing)
        /\ \A index \in {[key \in LabelsOf(ScanChunk(Terminated, 0)) |->
                            <<getIndex(key, BLOCK_SIZE), NameIndex(key, 0)>>]} :
                /\ \A i \in DOMAIN typedArray :
                        \E key \in DOMAIN index : i \div BLOCK_SIZE = index[key][1] \div BLOCK_SIZE
                /\ \A i \in DOMAIN stationNamesTypedArray :
                        \E key \in DOMAIN index : (i - index[key][2]) \in 0 .. (Len(key) - 1)
        /\ FailedWorkers = {} => (wErrors = 0 /\ Running)

\* "A;1.5", "A;1.5" and "B;1.5" without its newline: the two records were
\* dispatched, applied and reported, and "B;1.5" is still in buffer
C20_Witness ==
    /\ Len(Trailing) >= 2
    /\ allSent
    /\ Quiescent
    /\ FailedWorkers = {}
    /\ Reporting
    /\ Len(dispatched) >= 1
    /\ buffer = Trailing
    /\ cutInRecord
    /\ Field(SlotOf(<<65>>), COUNT_OFFSET) = 2
    /\ Field(SlotOf(<<66>>), COUNT_OFFSET) = 0

----------------------------------------------------------------------------
(* The label cell and the first-writer branch: checked under Spec *)

\* C19 (as claimed): the label cell of a slot is written by at most one
\* update.  Every record that took the first-writer branch stores the bytes of
\* its label into the cell of its slot before the worker moves on, so once the
\* workers are idle no slot has two such records with a label to store.
C19_LabelCellWrittenOnce ==
    Quiescent =>
        \A slot \in SlotsOf(FirstWriterRecords) :
            Cardinality({k \in InSlot(FirstWriterRecords, slot) :
                            FirstWriterRecords[k][1] # <<>>}) <= 1

----------------------------------------------------------------------------
(* The sum field: checked under SpecSum *)

\* C17 (as claimed): the stored sum never wraps.  In particular, while every
\* value applied to a slot is non-negative (min >= 0) the sum is at least the
\* largest of them.
C17_SumNeverWraps ==
    (Field(SlotOf(<<65>>), COUNT_OFFSET) > 0 /\ Field(SlotOf(<<65>>), MIN_OFFSET) >= 0) =>
        Field(SlotOf(<<65>>), SUM_OFFSET) >= Field(SlotOf(<<65>>), MAX_OFFSET)

----------------------------------------------------------------------------
(* The life of an entry: checked under SpecWrap *)

\* a slot's label cell holds a byte
CellNonEmpty(names, slot) == \E i \in CellIndices(slot) : AtomicsLoad(names, i) # 0

\* C21 (as claimed): no step of the run empties an entry.  A slot whose count
\* is not zero has a count that is not zero after the step, and a slot whose
\* label cell holds a byte has a label cell that holds a byte after the step.
C21_EntriesNeverRemoved ==
    [][/\ \A i \in DOMAIN typedArray :
            (i % BLOCK_SIZE = COUNT_OFFSET /\ typedArray[i] # 0) => AtomicsLoad(typedArray', i) # 0
       /\ \A slot \in {i \div STATION_NAME_BYTE_SIZE : i \in DOMAIN stationNamesTypedArray} :
            CellNonEmpty(stationNamesTypedArray, slot) => CellNonEmpty(stationNamesTypedArray', slot)]_vars

----------------------------------------------------------------------------
(* The file-splitting design: checked under SpecFileSplit *)

\* the whole records at the head of a worker's bytes
WholeRecords(bytes) == SubSeq(bytes, 1, LastIndexOf(bytes, newline) + 1)

\* the whole records of the workers of S below worker n, one after the other
RECURSIVE InputsOf(_, _)
InputsOf(S, n) ==
    IF n = 0 THEN <<>>
    ELSE InputsOf(S, n - 1) \o (IF (n - 1) \in S THEN WholeRecords(WorkerBytes(n - 1)) ELSE <<>>)

\* the Map one pass over bytes builds (the loop of the single-thread variant)
SingleMap(bytes) == STLoop(bytes, 0, EmptyArray).map

\* C22: whichever workers' results have arrived, and in whatever order, the
\* merged Map of the main thread is the Map that a single pass over those
\* workers' records, taken one worker after the other, builds: per label the
\* same count, min, max and sum.
C22_MergeIsSinglePass ==
    aggregations = SingleMap(InputsOf(fsMergedFrom, cpus))

\* "A;1.5", "A;-2.0" went to worker 0 and "A;1.5" to worker 1; both Maps
\* are merged and printed
C22_Witness ==
    /\ cpus = 2
    /\ fsPrintCount = 1
    /\ fsMergedFrom = {0, 1}
    /\ fsWorker[0].results = (<<65>> :> [min |-> -20, max |-> 15, sum |-> -5, count |-> 2])
    /\ fsWorker[1].results = (<<65>> :> [min |-> 15, max |-> 15, sum |-> 15, count |-> 1])
    /\ aggregations = (<<65>> :> [min |-> -20, max |-> 15, sum |-> 10, count |-> 3])

\* C25 (as claimed): the main thread prints at most once, and when it prints it
\* has merged one Map from each of the workers and every record of the file is
\* in the merged Map exactly once: the Map is the one a single pass over the
\* file builds.
C25_EveryRecordOnce ==
    /\ fsPrintCount <= 1
    /\ fsPrintCount = 1 =>
            /\ fsMergedFrom = 0 .. (cpus - 1)
            /\ finishedWorker = cpus
            /\ aggregations = SingleMap(input)

----------------------------------------------------------------------------
(* The worker's record loop: checked under Spec *)

\* the number of tenths a value text -?d+.d denotes
TenthsOf(text) ==
    LET body == IF text[1] = minus THEN Tail(text) ELSE text
        digits == SelectSeq(body, LAMBDA b : b # dot)
    IN  (IF text[1] = minus THEN -1 ELSE 1) * DigitsValue([i \in 1 .. Len(digits) |-> digits[i] - zero], 0)

\* the records of a text of newline-terminated lines "label;value", in order
RECURSIVE RecordsOfText(_)
RecordsOfText(bytes) ==
    IF \A i \in DOMAIN bytes : bytes[i] # newline THEN <<>>
    ELSE LET n == IndexOf(bytes, newline, 0)
             s == IndexOf(bytes, semicolon, 0)
         IN  <<<<SubSeq(bytes, 1, s), TenthsOf(SubSeq(bytes, s + 2, n))>>>>
             \o RecordsOfText(SubSeq(bytes, n + 2, Len(bytes)))

\* the records of the first k dispatched spans that went to worker w
RECURSIVE RecordsTo(_, _, _)
RecordsTo(sent, w, k) ==
    IF k = 0 THEN <<>>
    ELSE RecordsTo(sent, w, k - 1) \o (IF sent[k].worker = w THEN RecordsOfText(sent[k].span) ELSE <<>>)

IsPrefix(s, t) == Len(s) <= Len(t) /\ s = SubSeq(t, 1, Len(s))

\* the updates worker w has begun are the first records of its chunks, in
\* record order and with their label and value; all of them once it is idle
\* with nothing queued
UpdatesAreTheRecords(w, sent, started, pc, queue) ==
    \A records \in {RecordsTo(sent, w, Len(sent))} :
        /\ IsPrefix(started, records)
        /\ (pc = "idle" /\ queue = <<>>) => started = records

\* how far a worker is into the handling of one record
PcRank(pc) ==
    CASE pc = "getCount" -> 0
      [] pc \in {"fwCount", "upCount"} -> 1
      [] pc \in {"fwMin", "upGetMin"} -> 2
      [] pc \in {"fwMax", "upMin"} -> 3
      [] pc \in {"fwSum", "upGetMax"} -> 4
      [] pc \in {"fwName", "upMax"} -> 5
      [] pc = "upGetSum" -> 6
      [] pc = "upSum" -> 7
      [] OTHER -> 8

\* a step of a worker inside a chunk moves it forward: to a later record of
\* the chunk, or further into the same record, or out of the chunk
MovesForward(w) ==
    (wPc[w] # "idle" /\ <<wPc[w], wOffset[w], wNameIdx[w]>> # <<wPc'[w], wOffset'[w], wNameIdx'[w]>>) =>
        \/ wPc'[w] = "idle" /\ wChunk'[w] = <<>>
        \/ wChunk'[w] = wChunk[w] /\ wOffset'[w] > wOffset[w] /\ wOffset'[w] < Len(wChunk[w])
        \/ /\ wChunk'[w] = wChunk[w]
           /\ wOffset'[w] = wOffset[w]
           /\ \/ PcRank(wPc'[w]) > PcRank(wPc[w])
              \/ wPc'[w] = wPc[w] /\ wNameIdx'[w] > wNameIdx[w] /\ wNameIdx'[w] < Len(wChunk[w])

\* the steps that can change what UpdatesAreTheRecords says of worker w: a
\* span is sent to it or taken by it, it begins an update, it goes idle
RecordStep(w) ==
    \/ <<wQueue[w], wStarted[w]>>' # <<wQueue[w], wStarted[w]>>
    \/ wPc[w] # "idle" /\ wPc'[w] = "idle"

\* C23: of chunks of whole newline-terminated records a worker applies one
\* update per record, in record order, with the label before the record's
\* separator and the value between the separator and the terminator: never an
\* update more, and none less once it has gone through its chunks (it holds
\* of the empty table at the start and every step that bears on it keeps it).
\* Every step of the scan moves forward in the chunk, so the loop ends.
C23_OneUpdatePerRecord ==
    [][\A w \in Workers :
        /\ RecordStep(w) => UpdatesAreTheRecords(w, dispatched', wStarted'[w], wPc'[w], wQueue'[w])
        /\ MovesForward(w)]_vars

\* worker 0 is through a chunk of two different records
C23_Witness ==
    /\ wPc[0] = "idle"
    /\ wQueue[0] = <<>>
    /\ Len(dispatched) = 1
    /\ Len(wStarted[0]) = 2
    /\ wStarted[0][1] # wStarted[0][2]
    /\ wStarted[0] = RecordsOfText(dispatched[1].span)

----------------------------------------------------------------------------
(* The completion message of a chunk: checked under Spec *)

\* the chunks sent to worker w so far
ChunksTo(sent, w) == Cardinality({k \in DOMAIN sent : sent[k].worker = w})

\* the records of the chunks that wait in a worker's queue
RECURSIVE QueuedRecords(_)
QueuedRecords(queue) ==
    IF queue = <<>> THEN 0
    ELSE Len(RecordsOfText(Head(queue).bytes)) + QueuedRecords(Tail(queue))

\* worker w is at the last field store of a record: the sum of an update, the
\* last label byte of a first write
AtLastStore(w) ==
    \/ wPc[w] = "upSum"
    \/ wPc[w] = "fwName" /\ wNameIdx[w] + 1 = Len(wStarted[w][Len(wStarted[w])][1])

\* worker w has begun the update of every record of the chunks it has taken
AllBegun(w) ==
    Len(wStarted[w]) + QueuedRecords(wQueue[w]) = Len(RecordsTo(dispatched, w, Len(dispatched)))

----------------------------------------------------------------------------
(* One worker thread: checked under SpecSolo *)

InInt32(n) == -MaxInt32 - 1 <= n /\ n <= MaxInt32

\* C26: with one worker thread, once the worker has gone through the chunks
\* sent to it, every slot holds the exact aggregate of the records applied to
\* it (those of all the labels that go to the slot): count is their number,
\* min and max are the extremes of their values, and sum is their total when
\* the total is an int32.  No other slot holds anything.
C26_SoloAggregatesExact ==
    (wPc[0] = "idle" /\ wQueue[0] = <<>>) =>
        \A recs \in {RecordsTo(dispatched, 0, Len(dispatched))} :
            /\ \A slot \in SlotsOf(recs) :
                \A ks \in {InSlot(recs, slot)} :
                    /\ Field(slot, COUNT_OFFSET) = Cardinality(ks)
                    /\ Field(slot, MIN_OFFSET) = SetMin(TempsAt(recs, ks))
                    /\ Field(slot, MAX_OFFSET) = SetMax(TempsAt(recs, ks))
                    /\ InInt32(SumAt(recs, ks)) => Field(slot, SUM_OFFSET) = SumAt(recs, ks)
            /\ \A i \in DOMAIN typedArray : (i \div BLOCK_SIZE) \in SlotsOf(recs)

\* the worker is through three chunks of one record each: "G;-2.0" and
\* ",S;1.5" in slot 5880, and "A;1.5"
C26_Witness ==
    /\ wPc[0] = "idle"
    /\ wQueue[0] = <<>>
    /\ Len(dispatched) = 3
    /\ wPosted[0] = 3
    /\ Field(5880, COUNT_OFFSET) = 2
    /\ Field(5880, MIN_OFFSET) = -20
    /\ Field(5880, MAX_OFFSET) = 15
    /\ Field(5880, SUM_OFFSET) = -5
    /\ Field(7645, COUNT_OFFSET) = 1

----------------------------------------------------------------------------
(* Races on a slot's count: checked under Spec *)

\* the updates begun so far, over all workers: worker and position
Begun(started) == {u \in Workers \X (1 .. MaxRecords + 1) : u[2] <= Len(started[u[1]])}

\* those begun on a slot
StartedOn(slot) == {u \in Begun(wStarted) : SlotOf(wStarted[u[1]][u[2]][1]) = slot}

\* every count of the table ta is at least 1 and at most the number of the
\* updates begun on its slot
CountsWithinBegun(ta, started) ==
    \A slotOf \in {[label \in {started[u[1]][u[2]][1] : u \in Begun(started)} |-> SlotOf(label)]} :
        \A i \in DOMAIN ta :
            i % BLOCK_SIZE = COUNT_OFFSET =>
                /\ ta[i] >= 1
                /\ ta[i] <= Cardinality({u \in Begun(started) :
                                            slotOf[started[u[1]][u[2]][1]] = i \div BLOCK_SIZE})

\* C27: in every interleaving of the workers, a slot's count is at most the
\* number of updates that have begun on the slot (each begins with the load of
\* the count); a race can lose an increment, none adds one.  The table starts
\* empty and the updates begun only grow in number, so the steps to check are
\* the stores into the table.
C27_CountNeverInventsRecords ==
    [][typedArray' # typedArray => CountsWithinBegun(typedArray', wStarted')]_vars

\* three updates of label A are complete, one by worker 0 and two by worker
\* 1, and the race of the first two has lost an increment
C27_Witness ==
    /\ Quiescent
    /\ Len(wStarted[0]) = 1
    /\ Len(wStarted[1]) = 2
    /\ Cardinality(StartedOn(7645)) = 3
    /\ Field(7645, COUNT_OFFSET) = 2

----------------------------------------------------------------------------
(* The report is made once: checked under Spec *)

\* C28: printCompiledResults is called at most once in a run.  Once it has
\* been called the stream has ended, so sentChunk no longer changes, and
\* receivedChunk has reached sentChunk: a later completion message takes
\* receivedChunk past sentChunk and the condition of the listener is false.
C28_ReportedAtMostOnce ==
    /\ printCount <= 1
    /\ printCount = 1 => (allSent /\ receivedChunk >= sentChunk)

\* the report was made at the second of two completion messages, one from
\* each worker
C28_Witness ==
    /\ printCount = 1
    /\ sentChunk = 2
    /\ receivedChunk = 2
    /\ inbox = 0
    /\ wPosted = [w \in Workers |-> 1]

----------------------------------------------------------------------------
(* What an update leaves alone: checked under SpecEdge *)

\* the indices at which two states of a typed array differ
ChangedIn(before, after) ==
    {i \in DOMAIN before \cup DOMAIN after : AtomicsLoad(before, i) # AtomicsLoad(after, i)}

\* the step is one of worker w's update of a record
Updating(w) ==
    /\ wPc[w] \notin {"idle", "failed"}
    /\ <<wPc[w], wOffset[w], wNameIdx[w], wLocal[w]>> # <<wPc'[w], wOffset'[w], wNameIdx'[w], wLocal'[w]>>

\* C29: a step of the update of a label of at most 100 bytes changes, in the
\* numeric array, fields of the label's own slot only and, in the array of
\* names, bytes of that slot's label cell only; and no step but a step of an
\* update changes either array.
C29_UpdateStaysInItsSlot ==
    [][/\ \A w \in Workers :
            (/\ Updating(w)
             /\ <<typedArray, stationNamesTypedArray>>' # <<typedArray, stationNamesTypedArray>>
             /\ Len(StationBuffer(wChunk[w], wOffset[w])) <= STATION_NAME_BYTE_SIZE) =>
                \A slot \in {SlotOf(StationBuffer(wChunk[w], wOffset[w]))} :
                    /\ \A i \in ChangedIn(typedArray, typedArray') : i \div BLOCK_SIZE = slot
                    /\ \A i \in ChangedIn(stationNamesTypedArray, stationNamesTypedArray') :
                            i \div STATION_NAME_BYTE_SIZE = slot
       /\ (\A w \in Workers : ~Updating(w)) =>
            <<typedArray, stationNamesTypedArray>>' = <<typedArray, stationNamesTypedArray>>]_vars

\* the record of the 100-byte label is applied: its cell, the cell of slot
\* 6504, is full to its last byte, and the next cell is untouched
C29_Witness ==
    /\ Quiescent
    /\ Len(dispatched) = 1
    /\ Field(6504, COUNT_OFFSET) = 1
    /\ AtomicsLoad(stationNamesTypedArray, 650499) = 65
    /\ 650500 \notin DOMAIN stationNamesTypedArray

----------------------------------------------------------------------------
(* The accesses of the table: checked under SpecBoundary *)

NumericOffsets == {COUNT_OFFSET, MIN_OFFSET, MAX_OFFSET, SUM_OFFSET}

\* C30: for the label of every update under way, the slot number that
\* getIndex computes is one of 0 .. BLOCK_COUNT - 1, every index of a numeric
\* field of the slot is below the length of typedArray and, when the label is
\* of at most 100 bytes, the index of every byte of the label is below the
\* length of stationNamesTypedArray.
C30_AccessesInBounds ==
    \A w \in Workers :
        wPc[w] \notin {"idle", "failed"} =>
            \A key \in {StationBuffer(wChunk[w], wOffset[w])} :
                /\ getIndex(key, 1) \in 0 .. (BLOCK_COUNT - 1)
                /\ \A index \in {getIndex(key, BLOCK_SIZE)} :
                        \A offset \in NumericOffsets :
                            index + offset >= 0 /\ index + offset < BLOCK_COUNT * BLOCK_SIZE
                /\ Len(key) <= STATION_NAME_BYTE_SIZE =>
                        \A index \in {NameIndex(key, 0)} :
                            \A i \in 0 .. (Len(key) - 1) :
                                index + i >= 0 /\ index + i < BLOCK_COUNT * STATION_NAME_BYTE_SIZE

\* the 100-byte label of slot 10006 is applied: the last field of the numeric
\* array and the last byte of the array of names have been stored
C30_Witness ==
    /\ Quiescent
    /\ wPosted[0] = 1
    /\ (TypedArrayLength - 1) \in DOMAIN typedArray
    /\ (StationNamesLength - 1) \in DOMAIN stationNamesTypedArray
    /\ Len(wStarted[0][1][1]) = STATION_NAME_BYTE_SIZE

====
